---- MODULE Spec2Model ----
(***************************************************************************)
(* objects.do: the per-tenant entity/event kernel (ObjectsDO).             *)
(*                                                                         *)
(* Two implementations of the kernel are in the repository and both are    *)
(* modelled; `kernel` says which one a behaviour runs:                     *)
(*   "rpc"   - public methods called through the Durable Object stub; each *)
(*             method is synchronous, so it is one atomic step;            *)
(*   "fetch" - the fetch()-based request handlers; a handler that awaits   *)
(*             the request body between its read of the entity row and its *)
(*             write is two steps, and other requests may run in between.  *)
(***************************************************************************)
EXTENDS Integers, Sequences, FiniteSets, TLC

\* ------------------------------------------------------------------ bounds
MaxEvents == 3
MaxVersion == 3
MaxInflight == 2
MaxTime == 2
MaxThrows == 1

\* ------------------------------------------------------------ input domains
NounNames == {"Contact"}
NameInputs == NounNames \cup {"bad_name"}
Types == {"Contact", "Deal"}
EntityIds == <<"e1", "e2">>
Fields == {"stage"}
JsonNull == "null"
Contexts == {"https://headless.ly/~default"}
VerbInputs == {"qualify", "delete", "archive"}

Null == [null |-> TRUE]
NullCache == [hydrated |-> FALSE]
NoSchema == [defined |-> FALSE]

VARIABLES
    kernel,      \* "rpc" or "fetch": which implementation of ObjectsDO runs
    nouns,       \* table nouns: noun name -> stored schema, or NoSchema
    nounCache,   \* this.nounCache: NullCache, or the hydrated name -> schema map
    entities,    \* table entities, in rowid order
    events,      \* table events, in insertion (commit) order
    now,         \* the clock read by new Date()
    inflight,    \* fetch kernel: handlers suspended at `await request.json()`
    race,        \* two updateEntity calls issued in parallel, and their answers
    throws,      \* how many INSERT INTO events have thrown (bounded by MaxThrows)
    last,        \* the answer of the call that completed last
    subscriptions,     \* table subscriptions, in rowid order
    integration_hooks, \* table integration_hooks, in rowid order
    services,          \* the service bindings of this.env (fixed at deployment)
    outbox,            \* outbound requests issued and not yet settled
    dispatch_log,      \* table dispatch_log, in rowid order
    probe,             \* arguments and result of a pure function under test
    consumer,          \* a CDC client: its cursor and the events it has received
    tenant_meta,       \* table tenant_meta: key -> value
    hooks,             \* table hooks, in rowid order
    tenant,            \* the tenant id of the request being served: its kernel is the one in memory
    objects            \* env.OBJECTS: Durable Object id -> the storage of a kernel at rest, once it exists

\* what the entity handlers neither read for their answer nor write
aside == <<subscriptions, integration_hooks, services, dispatch_log, probe, consumer,
           tenant_meta, hooks, tenant, objects>>

vars == <<kernel, nouns, nounCache, entities, events, now, inflight, race, throws, last,
          subscriptions, integration_hooks, services, outbox, dispatch_log, probe, consumer,
          tenant_meta, hooks, tenant, objects>>

\* ------------------------------------------------------------ noun schemas
\* A definition maps some keys to "null" (disabled marker) or to
\* "Pascal" (a PascalCase value such as qualify: 'Qualified').
AllEnabled == [k \in {"qualify"} |-> "Pascal"]
Definitions ==
    { AllEnabled,
      [k \in {"update", "delete"} |-> "null"],
      [k \in {"create", "qualify"} |-> "null"] }

CRUD_VERBS == {"create", "update", "delete"}
READ_VERBS == {"get", "find"}

IsVerbDeclaration(key, value) ==
    value = "Pascal" /\ key \notin CRUD_VERBS /\ key \notin READ_VERBS

ParsePropertyKind(key, value) ==
    IF value = "null" THEN "disabled"
    ELSE IF IsVerbDeclaration(key, value) THEN "verb"
    ELSE "field"

ParseNounDefinition(name, definition) ==
    LET disabledVerbs == {k \in DOMAIN definition : ParsePropertyKind(k, definition[k]) = "disabled"}
        custom == {k \in DOMAIN definition : ParsePropertyKind(k, definition[k]) = "verb"}
    IN [defined |-> TRUE,
        name |-> name,
        verbs |-> custom \cup (CRUD_VERBS \ disabledVerbs),
        disabledVerbs |-> disabledVerbs]

IsPascalCase(name) == name \in NounNames

\* a cache that never reads the table
LoadNothing == [n \in NounNames |-> NoSchema]

\* loadNouns: hydrate the cache from the table on first access.
LoadNouns == IF nounCache = NullCache THEN nouns ELSE nounCache

GetNoun(name) == IF name \in DOMAIN LoadNouns THEN LoadNouns[name] ELSE NoSchema

\* ------------------------------------------------------------ table lookups
\* the lookup without `deleted_at IS NULL`
LiveRowsAny(type, id) ==
    {i \in 1..Len(entities) : entities[i].id = id /\ entities[i].type = type}

\* SELECT ... FROM entities WHERE id = ? AND type = ? AND deleted_at IS NULL
LiveRows(type, id) ==
    {i \in 1..Len(entities) :
        entities[i].id = id /\ entities[i].type = type /\ entities[i].deleted_at = Null}

\* a key that soft-deleted rows give back
HasLiveId(id) == \E i \in 1..Len(entities) : entities[i].id = id /\ entities[i].deleted_at = Null

\* the PRIMARY KEY of entities: a row of any type, live or soft-deleted, holds the id
HasId(id) == \E i \in 1..Len(entities) : entities[i].id = id

EventsOf(type, id) ==
    {i \in 1..Len(events) : events[i].entityType = type /\ events[i].entityId = id}

SetMax(S) == CHOOSE m \in S : \A x \in S : x <= m

\* SELECT MAX(sequence) ... ?? 0
MaxSequence(type, id) ==
    IF EventsOf(type, id) = {} THEN 0
    ELSE SetMax({events[i].sequence : i \in EventsOf(type, id)})

EventIdTaken(eid) == \E i \in 1..Len(events) : events[i].id = eid

\* generateEventId draws at random: the draw is an id no event has (named
\* by the next free number) or the id of an existing event.
EventIdDraws ==
    {Len(events) + 1} \cup (IF events = <<>> \/ throws >= MaxThrows THEN {} ELSE {events[1].id})

\* an id a caller supplies or generateEntityId mints: one some row has, or
\* one no row has (named by the first unused id)
EntityIdDraws ==
    {EntityIds[i] : i \in {j \in 1..Len(EntityIds) : j <= Len(entities) + 1}}

\* ------------------------------------------------------------ optional numbers
NoNum == [k |-> "none"]
NaN == [k |-> "nan"]
Num(n) == [k |-> "num", v |-> n]

\* what a request body can carry as $version, and Number() of it
NoHeader == [k |-> "absent"]
BodyVersions == {NoHeader, [k |-> "null"], [k |-> "text"]} \cup {Num(n) : n \in 1..MaxVersion}
NumberOf(x) ==
    IF x = [k |-> "null"] THEN Num(0)
    ELSE IF x = [k |-> "text"] THEN NaN
    ELSE x

\* what the If-Match header can carry: nothing, a quoted version, a weak tag
IfMatchInputs == {NoHeader, [k |-> "weak"]} \cup {Num(n) : n \in 1..MaxVersion}
\* parseInt(ifMatch.replace(/"/g, ''), 10)
ParseIfMatch(h) == IF h = [k |-> "weak"] THEN NaN ELSE h

\* the ($version, If-Match) pairs a request can carry
Preconditions ==
    {<<bv, NoHeader>> : bv \in BodyVersions} \cup {<<NoHeader, im>> : im \in IfMatchInputs}
        \cup {<<Num(1), Num(2)>>}

\* the pairs of a plain update, of a body with $version 1, of If-Match "2"
PlainPreconditions == {<<NoHeader, NoHeader>>, <<Num(1), NoHeader>>, <<NoHeader, Num(2)>>}

\* lines 551-557: the expected version of an update, or NoNum
ExpectedVersion(bodyVersion, ifMatch) ==
    IF bodyVersion # NoHeader THEN NumberOf(bodyVersion)
    ELSE IF ifMatch # NoHeader /\ ParseIfMatch(ifMatch) # NaN THEN ParseIfMatch(ifMatch)
    ELSE NoNum

\* a check that only rejects callers that are behind
VersionConflictStale(expected, currentVersion) ==
    expected.k = "num" /\ expected.v < currentVersion

\* line 559: expectedVersion !== undefined && expectedVersion !== currentVersion
VersionConflict(expected, currentVersion) ==
    expected # NoNum /\ expected # Num(currentVersion)

\* ------------------------------------------------------------ entity documents
Patches == {[k \in {"stage"} |-> "s:Cust"]}
VerbPayloads == {[k \in {"stage"} |-> "s:Cust"]}
CreateInputs == {[k \in Fields |-> "s:Lead"]}

ReservedKeys == {"$version", "$id", "$type", "$context", "$createdAt"}

\* const { $version, $id, $type, $context, $createdAt, ...userUpdates } = updates
StripReserved(patch) == [k \in (DOMAIN patch) \ ReservedKeys |-> patch[k]]

\* { ...existing, ...patch } on the user fields
MergeFields(f, patch) ==
    [k \in Fields |-> IF k \in DOMAIN patch THEN patch[k] ELSE f[k]]

NewEntity(type, id, data, contextUrl) ==
    [f |-> data, id |-> id, type |-> type, context |-> contextUrl,
     version |-> 1, createdAt |-> now, updatedAt |-> now]

NewRow(type, id, entity) ==
    [id |-> id, type |-> type, data |-> entity, version |-> 1,
     created_at |-> now, updated_at |-> now, deleted_at |-> Null]

\* { ...existing, ...patch }: a key of the patch replaces the document's
Spread(existing, patch) ==
    [f |-> MergeFields(existing.f, patch),
     id |-> IF "$id" \in DOMAIN patch THEN patch["$id"] ELSE existing.id,
     type |-> IF "$type" \in DOMAIN patch THEN patch["$type"] ELSE existing.type,
     context |-> IF "$context" \in DOMAIN patch THEN patch["$context"] ELSE existing.context,
     version |-> IF "$version" \in DOMAIN patch THEN patch["$version"] ELSE existing.version,
     createdAt |-> IF "$createdAt" \in DOMAIN patch THEN patch["$createdAt"] ELSE existing.createdAt,
     updatedAt |-> IF "$updatedAt" \in DOMAIN patch THEN patch["$updatedAt"] ELSE existing.updatedAt]

\* the spread with only $version and $updatedAt set after it
UpdatedUnpinned(type, id, existing, patch, nextVersion) ==
    [Spread(existing, patch) EXCEPT !.version = nextVersion, !.updatedAt = now]

\* the document written by updateEntity and executeVerb: the spread, then
\* $id, $type, $context, $version, $createdAt and $updatedAt
Updated(type, id, existing, patch, nextVersion) ==
    [Spread(existing, patch) EXCEPT
        !.id = id, !.type = type, !.context = existing.context,
        !.version = nextVersion, !.createdAt = existing.createdAt, !.updatedAt = now]

\* UPDATE entities SET data = ?, version = ?, updated_at = ? WHERE id = ?
WriteUpdate(id, updated, nextVersion) ==
    [i \in 1..Len(entities) |->
        IF entities[i].id = id
        THEN [entities[i] EXCEPT !.data = updated, !.version = nextVersion, !.updated_at = now]
        ELSE entities[i]]

\* UPDATE entities SET deleted_at = ?, updated_at = ? WHERE id = ?
WriteDelete(id) ==
    [i \in 1..Len(entities) |->
        IF entities[i].id = id
        THEN [entities[i] EXCEPT !.deleted_at = Num(now), !.updated_at = now]
        ELSE entities[i]]

\* ------------------------------------------------------------ event log
\* a log-wide counter in place of the per-entity one
NextSeqGlobal(type, id) == Len(events) + 1

\* logEvent: nextSeq = currentSeq + 1
NextSeq(type, id) == MaxSequence(type, id) + 1

NewEvent(eid, type, id, verb, data, before, after) ==
    [id |-> eid, entityType |-> type, entityId |-> id, verb |-> verb,
     data |-> data, before |-> before, after |-> after,
     sequence |-> NextSeq(type, id), timestamp |-> now]

\* logEvent: INSERT INTO events throws when the id is taken (PRIMARY KEY)
LogEventThrows(eid) == EventIdTaken(eid)

\* a log that keeps one row per entity: the new event takes the place of the
\* entity's previous one
LogEventUpsert(eid, type, id, verb, data, before, after) ==
    IF LogEventThrows(eid) THEN events
    ELSE Append(SelectSeq(events, LAMBDA e : ~(e.entityType = type /\ e.entityId = id)),
                NewEvent(eid, type, id, verb, data, before, after))

LogEvent(eid, type, id, verb, data, before, after) ==
    IF LogEventThrows(eid) THEN events
    ELSE Append(events, NewEvent(eid, type, id, verb, data, before, after))

Counted(eid) == throws' = IF LogEventThrows(eid) THEN throws + 1 ELSE throws

\* ------------------------------------------------------------ dispatch
\* A pattern and an event type are kept as the sequence of their
\* dot-separated segments: "Contact.*" is <<"Contact", "*">>, "*" is <<"*">>.
Undefined == "<undefined>"

\* const [a, b] = text.split('.')
Part(text, i) == IF i <= Len(text) THEN text[i] ELSE Undefined

\* `${entityType}.${verb}`
EventType(event) == <<event.entityType, event.verb>>

\* matchesPattern(pattern, eventType)
MatchesPattern(pattern, eventType) ==
    IF pattern = <<"*">> THEN TRUE
    ELSE LET patternEntity == Part(pattern, 1)
             patternVerb == Part(pattern, 2)
             eventEntity == Part(eventType, 1)
             eventVerb == Part(eventType, 2)
         IN IF patternEntity = "*" THEN patternVerb = eventVerb
            ELSE IF patternVerb = "*" THEN patternEntity = eventEntity
            ELSE pattern = eventType

\* deriveVerb's event form, on the verbs of this model
ToPastParticiple(verb) ==
    CASE verb = "create" -> "created"
      [] verb = "update" -> "updated"
      [] verb = "delete" -> "deleted"
      [] verb = "qualify" -> "qualified"
      [] verb = "archive" -> "archived"
      [] OTHER -> "other"

\* SELECT * FROM subscriptions WHERE active = 1
ActiveSubscriptions == {i \in 1..Len(subscriptions) : subscriptions[i].active = 1}

\* a POST on its way: signed first when the subscription has a secret
Webhook(sub, event) ==
    [kind |-> "webhook", sub |-> sub.id, event |-> event.id,
     state |-> IF sub.secret THEN "signing" ELSE "sent"]

\* dispatchToSubscriptions(event): the deliveries it starts
DispatchToSubscriptions(event) ==
    {Webhook(subscriptions[i], event) :
        i \in {j \in ActiveSubscriptions :
                 /\ MatchesPattern(subscriptions[j].pattern, EventType(event))
                 /\ subscriptions[j].mode = "webhook"}}

ServiceNames == {"PAYMENTS", "REPO", "INTEGRATIONS", "OAUTH"}

\* a built-in table with a catch-all hook for EVENTS
WithCatchAll ==
    {[entityType |-> "*", verb |-> "*", service |-> "EVENTS", method |-> "POST /events"],
     [entityType |-> "Contact", verb |-> "create", service |-> "PAYMENTS", method |-> "POST /customers/sync"]}

\* a match on the entity type alone
HookMatchesType(hook, entityType, verb) == hook.entityType = "*" \/ hook.entityType = entityType

BUILTIN_HOOKS ==
    {[entityType |-> "Contact", verb |-> "qualify", service |-> "PAYMENTS", method |-> "POST /customers/sync"],
     [entityType |-> "Contact", verb |-> "create", service |-> "PAYMENTS", method |-> "POST /customers/sync"],
     [entityType |-> "Deal", verb |-> "close", service |-> "PAYMENTS", method |-> "POST /subscriptions/create"],
     [entityType |-> "Issue", verb |-> "create", service |-> "REPO", method |-> "POST /issues/create"],
     [entityType |-> "Issue", verb |-> "update", service |-> "REPO", method |-> "POST /issues/update"],
     [entityType |-> "Issue", verb |-> "close", service |-> "REPO", method |-> "POST /issues/close"]}

\* hookMatches(hook, entityType, verb)
HookMatches(hook, entityType, verb) ==
    /\ hook.entityType = "*" \/ hook.entityType = entityType
    /\ hook.verb = "*" \/ hook.verb = verb

\* loadIntegrationHooks(entityType, verb): the rows, as IntegrationHook objects
LoadIntegrationHooks(entityType, verb) ==
    {[id |-> r.id, entityType |-> r.entity_type, verb |-> r.verb, service |-> r.service,
      method |-> r.method, active |-> (r.active = 1)] :
        r \in {integration_hooks[i] : i \in {j \in 1..Len(integration_hooks) :
                 /\ integration_hooks[j].active = 1
                 /\ integration_hooks[j].entity_type \in {entityType, "*"}
                 /\ integration_hooks[j].verb \in {verb, "*"}}}}

\* `builtin:${hook.service}:${hook.method}`
BuiltinId(h) == <<"builtin", h.service, h.method>>

\* findMatchingHooks(entityType, verb, tenantHooks): id, service, method
FindMatchingHooks(entityType, verb, tenantHooks) ==
    {[hookId |-> BuiltinId(h), service |-> h.service, method |-> h.method, builtin |-> TRUE] :
        h \in {b \in BUILTIN_HOOKS : HookMatches(b, entityType, verb)}}
    \cup
    {[hookId |-> h.id, service |-> h.service, method |-> h.method, builtin |-> FALSE] :
        h \in {t \in tenantHooks : t.active /\ HookMatches(t, entityType, verb)}}

\* a DispatchResult: status, statusCode and error
Settlement(outcome) ==
    CASE outcome = "ok" -> [state |-> "success", code |-> 200, error |-> "none"]
      [] outcome = "non_ok" -> [state |-> "error", code |-> 500, error |-> "HTTP 500"]
      [] outcome = "rejected" -> [state |-> "error", code |-> 0, error |-> "rejected"]
      [] outcome = "unbound" -> [state |-> "error", code |-> 0, error |-> "not available"]
      [] OTHER -> [state |-> "pending", code |-> 0, error |-> "none"]

\* dispatchIntegrationHooks: one call per hook, an error at once for a hook
\* whose service is not bound
Calls(matched) ==
    {[hookId |-> h.hookId, service |-> h.service, method |-> h.method,
      result |-> Settlement(IF h.service \in services THEN "pending" ELSE "unbound")] : h \in matched}

\* dispatchIntegrations(event, contextUrl): the batch it starts
DispatchIntegrations(event) ==
    LET matched == FindMatchingHooks(event.entityType, event.verb,
                                     LoadIntegrationHooks(event.entityType, event.verb))
    IN IF services = {} \/ matched = {} THEN {}
       ELSE {[kind |-> "integration", event |-> event.id, calls |-> Calls(matched)]}

\* logEvent after its INSERT: the two dispatches, neither awaited
Dispatched(eid) ==
    outbox' = IF LogEventThrows(eid) THEN outbox
              ELSE outbox \cup DispatchToSubscriptions(events'[Len(events')])
                          \cup DispatchIntegrations(events'[Len(events')])

\* ------------------------------------------------------------ answers
\* the expected version a request carries: a numeric $version of the body,
\* else a numeric If-Match
Supplied(bv, im) ==
    IF bv.k = "num" THEN bv
    ELSE IF bv = NoHeader /\ im.k = "num" THEN im
    ELSE NoNum

\* The answer of a call, with the request it answers (op, verb, type, id and
\* the expected version sup) and three facts about the step that the claims
\* speak of: the version of the live row before the call (pre), whether
\* table entities changed (wrote) and how many events were appended (logged).
Pre(type, id) ==
    IF LiveRows(type, id) = {} THEN NoNum
    ELSE Num(entities[CHOOSE i \in LiveRows(type, id) : TRUE].version)

Answer(op, verb, type, id, status, bv, im, cur, exp, ver) ==
    [op |-> op, verb |-> verb, type |-> type, id |-> id, status |-> status, sup |-> Supplied(bv, im),
     cur |-> cur, exp |-> exp, ver |-> ver,
     pre |-> Pre(type, id), wrote |-> entities' # entities,
     logged |-> Len(events') - Len(events)]

\* ------------------------------------------------------------ tenant kernels
\* A tenant id is kept as the sequence of its characters.
MaxIdLen == 2

IdLetters == {"a", "7", "-", "A"}
LowerAlnum ==
    {"a", "b", "c", "d", "e", "f", "g", "h", "i", "j", "k", "l", "m", "n", "o", "p", "q", "r",
     "s", "t", "u", "v", "w", "x", "y", "z", "0", "1", "2", "3", "4", "5", "6", "7", "8", "9"}

TenantA == <<"a", "7">>
TenantB == <<"7", "a">>
LongId(n) == [i \in 1..n |-> "a"]

\* the ids a request may name: none, every text up to a length, and two long ones
TenantIdInputs ==
    {<<>>, LongId(64), LongId(65)} \cup UNION {[1..n -> IdLetters] : n \in 1..MaxIdLen}

\* a namespace that hands every name the same object
OneObject(name) == <<"do">>

\* env.OBJECTS.idFromName(tenantId): the same name gives the same id, and
\* two names give two ids
idFromName(name) == <<"do", name>>

\* getTenantStub(env, tenantId)
getTenantStub(tenantId) == idFromName(tenantId)

NoMeta == [k \in {} |-> 0]

\* the storage of a kernel nobody has called yet (initSchema)
Blank ==
    [nouns |-> [n \in NounNames |-> NoSchema], nounCache |-> NullCache,
     entities |-> <<>>, events |-> <<>>, subscriptions |-> <<>>, integration_hooks |-> <<>>,
     dispatch_log |-> <<>>, tenant_meta |-> NoMeta, hooks |-> <<>>]

\* the storage of the kernel in memory
InMemory ==
    [nouns |-> nouns, nounCache |-> nounCache,
     entities |-> entities, events |-> events, subscriptions |-> subscriptions,
     integration_hooks |-> integration_hooks, dispatch_log |-> dispatch_log,
     tenant_meta |-> tenant_meta, hooks |-> hooks]

\* the storage behind a stub: an object is created on its first access
StorageOf(stub) ==
    IF stub = getTenantStub(tenant) THEN InMemory
    ELSE IF stub \in DOMAIN objects THEN objects[stub]
    ELSE Blank

NoRace == [active |-> FALSE]
Quiet == race = NoRace
Room == Len(events) < MaxEvents

NoProbe == [f |-> "none"]

InitWith(k, env, p) ==
    /\ kernel = k
    /\ nouns = [n \in NounNames |-> NoSchema]
    /\ nounCache = NullCache
    /\ entities = <<>>
    /\ events = <<>>
    /\ now = 0
    /\ inflight = <<>>
    /\ race = NoRace
    /\ throws = 0
    /\ subscriptions = <<>>
    /\ integration_hooks = <<>>
    /\ services = env
    /\ outbox = {}
    /\ dispatch_log = <<>>
    /\ probe = p
    /\ consumer = [cursor |-> NoNum, received |-> <<>>]
    /\ tenant_meta = NoMeta
    /\ hooks = <<>>
    /\ tenant = TenantA
    /\ objects = [d \in {} |-> Blank]
    /\ last = [op |-> "none", verb |-> "none", type |-> "none", id |-> "none", status |-> 0,
               sup |-> NoNum, cur |-> NoNum, exp |-> NoNum,
               ver |-> NoNum, pre |-> NoNum, wrote |-> FALSE, logged |-> 0]

InitEnv(k, env) == InitWith(k, env, NoProbe)

InitOf(k) == InitEnv(k, {})

Init == InitOf("rpc")
FetchInit == InitOf("fetch")

\* ------------------------------------------------------------ nouns
\* defineNoun (both kernels run the same statements after the body is read)
DefineNoun(name, definition) ==
    /\ Quiet
    /\ UNCHANGED <<kernel, aside, entities, events, outbox, now, inflight, race, throws>>
    /\ IF ~IsPascalCase(name)
       THEN /\ last' = Answer("defineNoun", "defineNoun", name, "none", 400, NoHeader, NoHeader, NoNum, NoNum, NoNum)
            /\ UNCHANGED <<nouns, nounCache>>
       ELSE /\ nouns' = [nouns EXCEPT ![name] = ParseNounDefinition(name, definition)]
            /\ nounCache' = NullCache
            /\ last' = Answer("defineNoun", "defineNoun", name, "none", 201, NoHeader, NoHeader, NoNum, NoNum, NoNum)

\* ------------------------------------------------------------ write phases
\* createEntity from the INSERT on: the row, then the event
CreateWrite(type, data, id, contextUrl, eid) ==
    IF HasId(id)
    THEN /\ UNCHANGED <<entities, events, throws, outbox>>
         /\ last' = Answer("create", "create", type, id, 500, NoHeader, NoHeader, NoNum, NoNum, NoNum)
    ELSE /\ Counted(eid)
         /\ entities' = Append(entities, NewRow(type, id, NewEntity(type, id, data, contextUrl)))
         /\ events' = LogEvent(eid, type, id, "create", NewEntity(type, id, data, contextUrl),
                               Null, NewEntity(type, id, data, contextUrl))
         /\ Dispatched(eid)
         /\ last' = Answer("create", "create", type, id, IF LogEventThrows(eid) THEN 500 ELSE 201,
                           NoHeader, NoHeader, NoNum, NoNum, Num(1))

\* updateEntity from the version check on, given the row the handler read
UpdateWrite(type, id, existing, currentVersion, patch, bodyVersion, ifMatch, eid) ==
    LET expected == ExpectedVersion(bodyVersion, ifMatch)
        nextVersion == currentVersion + 1
        updated == Updated(type, id, existing, StripReserved(patch), nextVersion)
    IN IF VersionConflict(expected, currentVersion)
       THEN /\ UNCHANGED <<entities, events, throws, outbox>>
            /\ last' = Answer("update", "update", type, id, 409, bodyVersion, ifMatch,
                              Num(currentVersion), expected, NoNum)
       ELSE /\ Counted(eid)
            /\ entities' = WriteUpdate(id, updated, nextVersion)
            /\ events' = LogEvent(eid, type, id, "update", updated, existing, updated)
            /\ Dispatched(eid)
            /\ last' = Answer("update", "update", type, id, IF LogEventThrows(eid) THEN 500 ELSE 200,
                              bodyVersion, ifMatch, NoNum, NoNum, Num(nextVersion))

\* a soft delete that forgets to log its event
DeleteWriteNoEvent(type, id, existing, eid) ==
    /\ entities' = WriteDelete(id)
    /\ UNCHANGED <<events, throws, outbox>>
    /\ last' = Answer("delete", "delete", type, id, 200, NoHeader, NoHeader, NoNum, NoNum, NoNum)

\* deleteEntity from the soft delete on
DeleteWrite(type, id, existing, eid) ==
    /\ Counted(eid)
    /\ entities' = WriteDelete(id)
    /\ events' = LogEvent(eid, type, id, "delete", Null, existing, Null)
    /\ Dispatched(eid)
    /\ last' = Answer("delete", "delete", type, id, IF LogEventThrows(eid) THEN 500 ELSE 200,
                      NoHeader, NoHeader, NoNum, NoNum, NoNum)

\* getHooks(noun, verb, phase): the rows of table hooks for a phase of a verb
GetHooks(noun, verb, phase) ==
    {i \in 1..Len(hooks) : hooks[i].noun = noun /\ hooks[i].verb = verb /\ hooks[i].phase = phase}

\* hooks whose code rewrites the document they are run on
RunHooksRewrites(rows, doc) ==
    IF rows = {} THEN doc ELSE [doc EXCEPT !.f = [k \in DOMAIN doc.f |-> "s:Hooked"]]

\* the loop over the hooks of a phase: a console.warn for each hook, its
\* code never run, the document as it was
RunHooks(rows, doc) == doc

\* executeVerb from the merge on, given the row the handler read
VerbWrite(type, id, verb, existing, currentVersion, verbData, eid) ==
    LET nextVersion == currentVersion + 1
        merged == Updated(type, id, RunHooks(GetHooks(type, verb, "before"), existing),
                          verbData, nextVersion)
        updated == RunHooks(GetHooks(type, verb, "after"), merged)
    IN /\ Counted(eid)
       /\ entities' = WriteUpdate(id, updated, nextVersion)
       /\ events' = LogEvent(eid, type, id, verb, updated, existing, updated)
       /\ Dispatched(eid)
       /\ last' = Answer("verb", verb, type, id, IF LogEventThrows(eid) THEN 500 ELSE 200,
                         NoHeader, NoHeader, NoNum, NoNum, Num(nextVersion))

Reject(op, verb, type, id, status) ==
    /\ UNCHANGED <<entities, events, throws, outbox>>
    /\ last' = Answer(op, verb, type, id, status, NoHeader, NoHeader, NoNum, NoNum, NoNum)

\* an update refused before its version check
RejectUpdate(type, id, status, bodyVersion, ifMatch) ==
    /\ UNCHANGED <<entities, events, throws, outbox>>
    /\ last' = Answer("update", "update", type, id, status, bodyVersion, ifMatch,
                      NoNum, NoNum, NoNum)

TheLive(type, id) == entities[CHOOSE i \in LiveRows(type, id) : TRUE]

\* lines 619-635 of executeVerb: 0 when the verb may run, else the status
VerbCheck(noun, verb) ==
    IF noun = NoSchema THEN 400
    ELSE IF verb \notin noun.verbs THEN 400
    ELSE IF verb \in noun.disabledVerbs THEN 403
    ELSE 0

\* ------------------------------------------------------------ RPC kernel
\* createEntity(type, data, opts)
CreateEntity(type, data, id, contextUrl, eid) ==
    /\ kernel = "rpc" /\ Quiet /\ Room
    /\ nounCache' = LoadNouns
    /\ IF GetNoun(type) = NoSchema THEN Reject("create", "create", type, "none", 400)
       ELSE IF "create" \in GetNoun(type).disabledVerbs
       THEN Reject("create", "create", type, "none", 403)
       ELSE CreateWrite(type, data, id, contextUrl, eid)
    /\ UNCHANGED <<kernel, aside, nouns, now, inflight, race>>

\* getEntity(type, id)
GetEntity(type, id) ==
    /\ kernel = "rpc" /\ Quiet
    /\ UNCHANGED <<kernel, aside, nouns, nounCache, entities, events, outbox, now, inflight, race, throws>>
    /\ IF LiveRows(type, id) = {}
       THEN last' = Answer("get", "get", type, id, 404, NoHeader, NoHeader, NoNum, NoNum, NoNum)
       ELSE last' = Answer("get", "get", type, id, 200, NoHeader, NoHeader, NoNum, NoNum,
                           Num(TheLive(type, id).data.version))

\* the statements of updateEntity, as one atomic call
UpdateCall(type, id, patch, bodyVersion, ifMatch, eid) ==
    /\ nounCache' = LoadNouns
    /\ IF GetNoun(type) # NoSchema /\ "update" \in GetNoun(type).disabledVerbs
       THEN RejectUpdate(type, id, 403, bodyVersion, ifMatch)
       ELSE IF LiveRows(type, id) = {} THEN RejectUpdate(type, id, 404, bodyVersion, ifMatch)
       ELSE UpdateWrite(type, id, TheLive(type, id).data, TheLive(type, id).version,
                        patch, bodyVersion, ifMatch, eid)

\* updateEntity(type, id, updates, opts)
UpdateEntity(type, id, patch, bodyVersion, ifMatch, eid) ==
    /\ kernel = "rpc" /\ Quiet /\ Room
    /\ \A i \in LiveRows(type, id) : entities[i].version < MaxVersion
    /\ UpdateCall(type, id, patch, bodyVersion, ifMatch, eid)
    /\ UNCHANGED <<kernel, aside, nouns, now, inflight, race>>

\* deleteEntity(type, id)
DeleteEntity(type, id, eid) ==
    /\ kernel = "rpc" /\ Quiet /\ Room
    /\ nounCache' = LoadNouns
    /\ IF GetNoun(type) # NoSchema /\ "delete" \in GetNoun(type).disabledVerbs
       THEN Reject("delete", "delete", type, id, 403)
       ELSE IF LiveRows(type, id) = {} THEN Reject("delete", "delete", type, id, 404)
       ELSE DeleteWrite(type, id, TheLive(type, id).data, eid)
    /\ UNCHANGED <<kernel, aside, nouns, now, inflight, race>>

\* executeVerb(type, id, verb, verbData)
ExecuteVerb(type, id, verb, verbData, eid) ==
    /\ kernel = "rpc" /\ Quiet /\ Room
    /\ \A i \in LiveRows(type, id) : entities[i].version < MaxVersion
    /\ nounCache' = LoadNouns
    /\ IF VerbCheck(GetNoun(type), verb) # 0
       THEN Reject("verb", verb, type, id, VerbCheck(GetNoun(type), verb))
       ELSE IF LiveRows(type, id) = {} THEN Reject("verb", verb, type, id, 404)
       ELSE VerbWrite(type, id, verb, TheLive(type, id).data, TheLive(type, id).version,
                      verbData, eid)
    /\ UNCHANGED <<kernel, aside, nouns, now, inflight, race>>

\* ------------------------------------------------------------ listEntities
DefaultLimit == 100
LimitCap == 1000

\* the filter parameter: absent, text that is not JSON, or a JSON object
NoFilter == [k |-> "absent"]
BadJson == [k |-> "bad"]
JsonFilter(m) == [k |-> "json", m |-> m]

\* a filter value that is an object or an array
ObjectValue == "o:{}"
\* typeof value is 'string', 'number' or 'boolean'
IsScalar(v) == v \in {"s:Lead", "s:Cust"}

EmptyMap == [k \in {} |-> JsonNull]
FilterMaps ==
    { [k \in {"stage"} |-> "s:Lead"],
      [k \in {"stage"} |-> "s:Cust"],
      [k \in {"owner"} |-> JsonNull],
      [k \in {"stage"} |-> ObjectValue],
      [k \in {"stage", "owner"} |-> IF k = "stage" THEN "s:Cust" ELSE JsonNull] }

\* the sort parameter: absent, text that is not JSON, or a one-pair object
NoSort == [k |-> "absent"]
SortBy(field, dir) == [k |-> "json", field |-> field, dir |-> dir]

ListParams(filter, limit, offset, sort) ==
    [filter |-> filter, limit |-> limit, offset |-> offset, sort |-> sort]

ListInputs ==
    {ListParams(NoFilter, NoNum, NoNum, NoSort),
     ListParams(BadJson, NoNum, NoNum, NoSort),
     ListParams(NoFilter, Num(1), Num(1), SortBy("$createdAt", 1)),
     ListParams(NoFilter, Num(0 - 1), NoNum, BadJson),
     ListParams(JsonFilter([k \in {"stage"} |-> "s:Cust"]), Num(1), NoNum, SortBy("stage", 1))}
        \cup {ListParams(JsonFilter(m), NoNum, NoNum, NoSort) : m \in FilterMaps}

\* json_extract(data, '$.' || key): the value, or SQL NULL for a missing key
\* or a JSON null
JsonExtract(doc, key) == IF key \in DOMAIN doc.f THEN doc.f[key] ELSE JsonNull

\* lines 472-480: the keys of the filter that become a condition; a value
\* that is neither null nor a scalar adds none
FilterConditions(m) == {k \in DOMAIN m : m[k] = JsonNull \/ IsScalar(m[k])}

\* `json_extract(..) IS NULL` for null, `json_extract(..) = ?` otherwise
Condition(doc, key, value) ==
    IF value = JsonNull THEN JsonExtract(doc, key) = JsonNull
    ELSE JsonExtract(doc, key) # JsonNull /\ JsonExtract(doc, key) = value

\* the WHERE clause without `deleted_at IS NULL`
ListWhereAll(type, m) ==
    {i \in 1..Len(entities) :
        /\ entities[i].type = type
        /\ \A k \in FilterConditions(m) : Condition(entities[i].data, k, m[k])}

\* WHERE type = ? AND deleted_at IS NULL [AND conditions]
ListWhere(type, m) ==
    {i \in 1..Len(entities) :
        /\ entities[i].type = type
        /\ entities[i].deleted_at = Null
        /\ \A k \in FilterConditions(m) : Condition(entities[i].data, k, m[k])}

\* SQLite's order of the values of the model: NULL, then text by bytes
ValueRank(v) == CASE v = JsonNull -> 0 [] v = "s:Cust" -> 1 [] v = "s:Lead" -> 2

\* lines 490-511: the ORDER BY column and direction
OrderBy(sort) ==
    IF sort.k # "json" THEN [col |-> "created_at", asc |-> FALSE]
    ELSE IF sort.field \in {"$createdAt", "created_at"}
    THEN [col |-> "created_at", asc |-> sort.dir = 1]
    ELSE IF sort.field \in {"$updatedAt", "updated_at"}
    THEN [col |-> "updated_at", asc |-> sort.dir = 1]
    ELSE [col |-> sort.field, asc |-> sort.dir = 1]

SortKey(i, col) ==
    IF col = "created_at" THEN entities[i].created_at
    ELSE IF col = "updated_at" THEN entities[i].updated_at
    ELSE ValueRank(JsonExtract(entities[i].data, col))

\* the orders ORDER BY allows: rows with equal keys come in any order
Orders(rows, sort) ==
    {s \in [1..Cardinality(rows) -> rows] :
        /\ \A a, b \in 1..Cardinality(rows) : a # b => s[a] # s[b]
        /\ \A a, b \in 1..Cardinality(rows) :
              a < b => IF OrderBy(sort).asc
                       THEN SortKey(s[a], OrderBy(sort).col) <= SortKey(s[b], OrderBy(sort).col)
                       ELSE SortKey(s[a], OrderBy(sort).col) >= SortKey(s[b], OrderBy(sort).col)}

\* Math.min(params.limit ?? 100, 1000)
Limit(params) ==
    IF params.limit = NoNum THEN DefaultLimit
    ELSE IF params.limit.v < LimitCap THEN params.limit.v ELSE LimitCap

Offset(params) == IF params.offset = NoNum THEN 0 ELSE params.offset.v

\* a page cut from the start of the rows, whatever the offset
WindowFromStart(s, limit, offset) ==
    SubSeq(s, 1, IF limit < 0 \/ limit > Len(s) THEN Len(s) ELSE limit)

\* LIMIT ? OFFSET ?: a negative LIMIT is no limit, a negative OFFSET is 0
Window(s, limit, offset) ==
    LET off == IF offset < 0 THEN 0 ELSE offset
        hi == IF limit < 0 \/ off + limit > Len(s) THEN Len(s) ELSE off + limit
    IN SubSeq(s, off + 1, hi)

\* listEntities(type, params)
ListEntities(type, params) ==
    /\ kernel = "rpc" /\ Quiet
    /\ UNCHANGED <<kernel, aside, nouns, nounCache, entities, events, outbox, now, inflight, race, throws>>
    /\ IF params.filter = BadJson
       THEN last' = [op |-> "list", verb |-> "list", type |-> type, id |-> "none",
                     status |-> 400, params |-> params]
       ELSE LET m == IF params.filter = NoFilter THEN EmptyMap ELSE params.filter.m
                rows == ListWhere(type, m)
            IN \E s \in Orders(rows, params.sort) :
                  LET page == Window(s, Limit(params), Offset(params))
                  IN last' = [op |-> "list", verb |-> "list", type |-> type, id |-> "none",
                              status |-> 200, params |-> params,
                              data |-> [j \in 1..Len(page) |-> entities[page[j]].data],
                              total |-> Cardinality(rows),
                              limit |-> Limit(params), offset |-> Offset(params),
                              hasMore |-> Offset(params) + Len(page) < Cardinality(rows)]

\* lines 513-529 on a table whose rows matching the filter are, in the order
\* of the query, 1..rows: the page, the total and hasMore
ListPage(rows, params) ==
    LET s == [i \in 1..rows |-> i]
        page == Window(s, Limit(params), Offset(params))
    IN [data |-> page, total |-> rows,
        hasMore |-> Offset(params) + Len(page) < rows]

MaxRows == LimitCap + 2

\* the tables and limits a client pages through: <<rows, limit>>
PageInputs ==
    {<<n, Num(l)>> : n \in 0..3, l \in 1..3}
        \cup {<<n, l>> : n \in {3, DefaultLimit + 1, MaxRows}, l \in {NoNum, Num(0), Num(0 - 1)}}
        \cup {<<DefaultLimit + 1, Num(2)>>, <<MaxRows - 1, Num(LimitCap)>>,
              <<MaxRows, Num(LimitCap + 1)>>, <<MaxRows, Num(LimitCap)>>,
              <<DefaultLimit + 1, Num(1)>>}

\* a client about to ask for its first page
Pager(rows, limit) ==
    [f |-> "listEntities", rows |-> rows, limit |-> limit, offset |-> 0,
     seen |-> {}, dup |-> FALSE, pages |-> 0, len |-> 0, hasMore |-> FALSE, done |-> FALSE]

\* the client asks for the page at its offset and, given a limit L >= 1,
\* goes on to offset + L until a page says hasMore = false
PageNext ==
    /\ probe.f = "listEntities" /\ ~probe.done
    /\ LET r == ListPage(probe.rows, ListParams(NoFilter, probe.limit, Num(probe.offset), NoSort))
           got == {r.data[j] : j \in 1..Len(r.data)}
           steps == probe.limit.k = "num" /\ probe.limit.v >= 1
       IN probe' = [probe EXCEPT !.seen = @ \cup got,
                                 !.dup = @ \/ got \cap probe.seen # {},
                                 !.pages = @ + 1,
                                 !.len = Len(r.data),
                                 !.hasMore = r.hasMore,
                                 !.done = ~r.hasMore \/ ~steps,
                                 !.offset = IF steps THEN @ + probe.limit.v ELSE @]
    /\ UNCHANGED <<kernel, nouns, nounCache, entities, events, now, inflight, race, throws, last,
                   subscriptions, integration_hooks, services, outbox, dispatch_log, consumer,
                   tenant_meta, hooks, tenant, objects>>

\* ------------------------------------------------------------ noun reads
\* Array.from(nouns.values())
Schemas(cache) == {cache[n] : n \in {m \in DOMAIN cache : cache[m] # NoSchema}}

\* listNouns()
ListNouns ==
    /\ kernel = "rpc" /\ Quiet
    /\ nounCache' = LoadNouns
    /\ last' = [op |-> "listNouns", type |-> "none", status |-> 200, data |-> Schemas(LoadNouns)]
    /\ UNCHANGED <<kernel, aside, nouns, entities, events, now, inflight, race, throws, outbox>>

\* getNounSchema(name)
GetNounSchema(name) ==
    /\ kernel = "rpc" /\ Quiet
    /\ nounCache' = LoadNouns
    /\ last' = [op |-> "getNoun", type |-> name,
                status |-> IF GetNoun(name) = NoSchema THEN 404 ELSE 200,
                data |-> IF GetNoun(name) = NoSchema THEN {} ELSE {GetNoun(name)}]
    /\ UNCHANGED <<kernel, aside, nouns, entities, events, now, inflight, race, throws, outbox>>

\* ------------------------------------------------------------ CDC stream
\* params.types / params.verbs: no filter, or the names listed
NoNames == [k |-> "none"]
Names(S) == [k |-> "names", v |-> S]

\* ORDER BY timestamp ASC, id ASC
Earlier(a, b) == a.timestamp < b.timestamp \/ (a.timestamp = b.timestamp /\ a.id < b.id)

RECURSIVE Ordered(_)
Ordered(S) ==
    IF S = {} THEN <<>>
    ELSE LET first == CHOOSE a \in S : \A b \in S \ {a} : Earlier(a, b)
         IN <<first>> \o Ordered(S \ {first})

\* (timestamp > ? OR (timestamp = ? AND id > ?)), when the cursor's row exists
AfterCursor(since, event) ==
    IF since = NoNum \/ ~EventIdTaken(since.v) THEN TRUE
    ELSE LET cursorRow == CHOOSE e \in {events[i] : i \in 1..Len(events)} : e.id = since.v
         IN \/ event.timestamp > cursorRow.timestamp
            \/ (event.timestamp = cursorRow.timestamp /\ event.id > since.v)

\* getEventStream(params): the buffered events it emits, in order
EventStream(since, types, verbs) ==
    Ordered({e \in {events[i] : i \in 1..Len(events)} :
                /\ AfterCursor(since, e)
                /\ types = NoNames \/ e.entityType \in types.v
                /\ verbs = NoNames \/ e.verb \in verbs.v})

\* GET /events/stream, answered and closed
GetEventStream(since, types, verbs) ==
    /\ kernel = "rpc" /\ Quiet
    /\ last' = [op |-> "stream", type |-> "none", status |-> 200, since |-> since,
                types |-> types, verbs |-> verbs,
                data |-> [i \in 1..Len(EventStream(since, types, verbs)) |->
                             EventStream(since, types, verbs)[i].id]]
    /\ UNCHANGED <<kernel, nouns, nounCache, entities, events, now, inflight, race, throws,
                   subscriptions, integration_hooks, services, outbox, dispatch_log, probe,
                   tenant_meta, hooks, tenant, objects>>

\* the client reconnects with the id of the last event it received, reads
\* the stream to its end and keeps the last id as its cursor
Reconnect ==
    /\ GetEventStream(consumer.cursor, NoNames, NoNames)
    /\ consumer' = LET got == last'.data
                   IN [cursor |-> IF got = <<>> THEN consumer.cursor ELSE Num(got[Len(got)]),
                       received |-> consumer.received \o got]

\* ------------------------------------------------------------ subscriptions
MaxSubs == 1
\* outbound requests in flight beyond which no further write is started
MaxOutbox == 1
\* events beyond which the dispatch runs start no further write
MaxDispatched == 1

Absent == [k |-> "absent"]

\* request bodies of POST /subscriptions
SubBody(pattern, mode, endpoint, secret) ==
    [pattern |-> pattern, mode |-> mode, endpoint |-> endpoint, secret |-> secret]
SubInputs ==
    {SubBody([k |-> "text", v |-> <<"*", "*">>], "webhook", "https://a", FALSE),
     SubBody([k |-> "text", v |-> <<"Contact", "*">>], "webhook", "https://b", TRUE),
     SubBody([k |-> "text", v |-> <<"*">>], "websocket", "https://c", FALSE),
     SubBody([k |-> "text", v |-> <<"Deal", "*">>], "webhook", "https://d", FALSE),
     SubBody(Absent, "webhook", "https://e", FALSE),
     SubBody([k |-> "text", v |-> <<"*">>], "email", "https://f", FALSE),
     SubBody([k |-> "text", v |-> <<"*">>], "webhook", "", FALSE)}

\* generateSubscriptionId(): an id no stored subscription has
SubIdDraws ==
    LET free == {n \in 1..MaxSubs : \A i \in 1..Len(subscriptions) : subscriptions[i].id # n}
    IN IF free = {} THEN {} ELSE {CHOOSE n \in free : \A m \in free : n <= m}

\* createSubscription(body)
CreateSubscription(body, id) ==
    /\ kernel = "rpc" /\ Quiet
    /\ UNCHANGED <<kernel, nouns, nounCache, entities, events, now, inflight, race, throws,
                   integration_hooks, services, outbox, dispatch_log, probe, consumer,
                   tenant_meta, hooks, tenant, objects>>
    /\ IF body.pattern = Absent \/ body.mode \notin {"webhook", "websocket"} \/ body.endpoint = ""
       THEN /\ UNCHANGED subscriptions
            /\ last' = Answer("createSubscription", "createSubscription", "none", "none", 400,
                              NoHeader, NoHeader, NoNum, NoNum, NoNum)
       ELSE /\ subscriptions' = Append(subscriptions,
                                  [id |-> id, pattern |-> body.pattern.v, mode |-> body.mode,
                                   endpoint |-> body.endpoint, secret |-> body.secret,
                                   active |-> 1, created_at |-> now])
            /\ last' = Answer("createSubscription", "createSubscription", "none", "none", 201,
                              NoHeader, NoHeader, NoNum, NoNum, NoNum)

\* deleteSubscription(subId)
DeleteSubscription(subId) ==
    /\ kernel = "rpc" /\ Quiet
    /\ UNCHANGED <<kernel, nouns, nounCache, entities, events, now, inflight, race, throws,
                   integration_hooks, services, outbox, dispatch_log, probe, consumer,
                   tenant_meta, hooks, tenant, objects>>
    /\ IF \A i \in 1..Len(subscriptions) : subscriptions[i].id # subId
       THEN /\ UNCHANGED subscriptions
            /\ last' = Answer("deleteSubscription", "deleteSubscription", "none", "none", 404,
                              NoHeader, NoHeader, NoNum, NoNum, NoNum)
       ELSE /\ subscriptions' = SelectSeq(subscriptions, LAMBDA r : r.id # subId)
            /\ last' = Answer("deleteSubscription", "deleteSubscription", "none", "none", 200,
                              NoHeader, NoHeader, NoNum, NoNum, NoNum)

\* ------------------------------------------------------------ integration hooks
MaxHooks == 1

\* request bodies of POST /integrations/hooks; "" is a missing field
HookBody(entityType, verb, service, method) ==
    [entityType |-> entityType, verb |-> verb, service |-> service, method |-> method]
HookInputs ==
    {HookBody("*", "*", "EVENTS", "POST /events"),
     HookBody("Contact", "qualify", "REPO", "POST /issues/create"),
     HookBody("Contact", "*", "PAYMENTS", "POST /customers/sync"),
     HookBody("", "create", "PAYMENTS", "POST /customers/sync"),
     HookBody("Contact", "", "PAYMENTS", "POST /customers/sync"),
     HookBody("Contact", "create", "SMTP", "POST /mail"),
     HookBody("Contact", "create", "", "POST /mail"),
     HookBody("Contact", "create", "REPO", "")}

validServices == {"PAYMENTS", "REPO", "INTEGRATIONS", "OAUTH", "EVENTS"}

\* `ihook_${generateSqid(12)}`: an id no stored hook has
HookIdDraws ==
    LET free == {n \in 1..MaxHooks :
                    \A i \in 1..Len(integration_hooks) : integration_hooks[i].id # <<"ihook", n>>}
    IN IF free = {} THEN {} ELSE {<<"ihook", CHOOSE n \in free : \A m \in free : n <= m>>}

\* the hook ids a caller may name: built-in ones, one that only looks
\* built-in, and tenant ones
HookIdInputs ==
    {BuiltinId(h) : h \in BUILTIN_HOOKS} \cup {<<"builtin", "SMTP", "POST /mail">>}
        \cup {<<"ihook", n>> : n \in 1..MaxHooks}

\* what a hook operation answers
HookAnswer(op, hookId, status) == [op |-> op, hookId |-> hookId, status |-> status]

\* createIntegrationHook(body)
CreateIntegrationHook(body, id) ==
    /\ kernel = "rpc" /\ Quiet
    /\ IF \/ body.entityType = "" \/ body.verb = "" \/ body.service = ""
          \/ body.service \notin validServices
          \/ body.method = ""
       THEN /\ UNCHANGED integration_hooks
            /\ last' = HookAnswer("createIntegrationHook", <<"none">>, 400)
       ELSE /\ integration_hooks' = Append(integration_hooks,
                                      [id |-> id, entity_type |-> body.entityType, verb |-> body.verb,
                                       service |-> body.service, method |-> body.method,
                                       active |-> 1, created_at |-> now])
            /\ last' = HookAnswer("createIntegrationHook", id, 201)
    /\ UNCHANGED <<kernel, nouns, nounCache, entities, events, now, inflight, race, throws,
                   subscriptions, services, outbox, dispatch_log, probe, consumer,
                   tenant_meta, hooks, tenant, objects>>

\* the built-in entries of listIntegrationHooks
BuiltinList ==
    {[id |-> BuiltinId(h), entityType |-> h.entityType, verb |-> h.verb, service |-> h.service,
      method |-> h.method, active |-> TRUE, builtin |-> TRUE] : h \in BUILTIN_HOOKS}

\* the tenant entries of listIntegrationHooks
TenantList ==
    {[id |-> r.id, entityType |-> r.entity_type, verb |-> r.verb, service |-> r.service,
      method |-> r.method, active |-> (r.active = 1), builtin |-> FALSE] :
        r \in {integration_hooks[i] : i \in 1..Len(integration_hooks)}}

\* listIntegrationHooks()
ListIntegrationHooks ==
    /\ kernel = "rpc" /\ Quiet
    /\ last' = [op |-> "listIntegrationHooks", hookId |-> <<"none">>, status |-> 200,
                builtin |-> BuiltinList, tenant |-> TenantList]
    /\ UNCHANGED <<kernel, aside, nouns, nounCache, entities, events, now, inflight, race, throws, outbox>>

\* a hook id no caller can delete
NeverBuiltin(hookId) == FALSE

\* hookId.startsWith('builtin:')
IsBuiltinId(hookId) == hookId[1] = "builtin"

\* deleteIntegrationHook(hookId)
DeleteIntegrationHook(hookId) ==
    /\ kernel = "rpc" /\ Quiet
    /\ IF IsBuiltinId(hookId)
       THEN /\ UNCHANGED integration_hooks
            /\ last' = HookAnswer("deleteIntegrationHook", hookId, 403)
       ELSE IF \A i \in 1..Len(integration_hooks) : integration_hooks[i].id # hookId
       THEN /\ UNCHANGED integration_hooks
            /\ last' = HookAnswer("deleteIntegrationHook", hookId, 404)
       ELSE /\ integration_hooks' = SelectSeq(integration_hooks, LAMBDA r : r.id # hookId)
            /\ last' = HookAnswer("deleteIntegrationHook", hookId, 200)
    /\ UNCHANGED <<kernel, nouns, nounCache, entities, events, now, inflight, race, throws,
                   subscriptions, services, outbox, dispatch_log, probe, consumer,
                   tenant_meta, hooks, tenant, objects>>

\* how an outbound request ends: signed (HMAC done), answered OK, answered
\* with an error status, or rejected
Outcomes == {"ok", "non_ok", "rejected"}

\* a failed dispatch that reaches the caller
Surfaced(outcome, answer) ==
    IF outcome = "ok" THEN answer ELSE [answer EXCEPT !.status = 500]

\* .catch(() => {}), and the try/catch of dispatchToService: whatever the
\* outcome, the answer the mutation gave stands
Swallow(outcome, answer) == answer

\* dispatchWebhook after `await crypto.subtle.sign`: the POST goes out, or
\* signing rejects and the delivery is dropped
WebhookSigns(d, outcome) ==
    /\ d \in outbox /\ d.kind = "webhook" /\ d.state = "signing"
    /\ outbox' = IF outcome = "ok" THEN (outbox \ {d}) \cup {[d EXCEPT !.state = "sent"]}
                 ELSE outbox \ {d}
    /\ last' = Swallow(outcome, last)
    /\ UNCHANGED <<kernel, aside, nouns, nounCache, entities, events, now, inflight, race, throws>>

\* dispatchWebhook after `await fetch`: the endpoint answered or the fetch rejected
WebhookSettles(d, outcome) ==
    /\ d \in outbox /\ d.kind = "webhook" /\ d.state = "sent"
    /\ outbox' = outbox \ {d}
    /\ last' = Swallow(outcome, last)
    /\ UNCHANGED <<kernel, aside, nouns, nounCache, entities, events, now, inflight, race, throws>>

\* dispatchToService: the service answered or its fetch rejected
ServiceAnswers(b, c, outcome) ==
    /\ b \in outbox /\ b.kind = "integration" /\ c \in b.calls /\ c.result.state = "pending"
    /\ outbox' = (outbox \ {b}) \cup
                    {[b EXCEPT !.calls = (@ \ {c}) \cup {[c EXCEPT !.result = Settlement(outcome)]}]}
    /\ last' = Swallow(outcome, last)
    /\ UNCHANGED <<kernel, aside, nouns, nounCache, entities, events, now, inflight, race, throws>>

\* the arrangements of a finite set in a sequence
Arrangements(S) ==
    {q \in [1..Cardinality(S) -> S] : \A a, b \in 1..Cardinality(S) : a # b => q[a] # q[b]}

\* .then(results => logDispatchResults(event.$id, results)): every call of
\* the batch has settled, one row per result
LogDispatchResults(b) ==
    /\ b \in outbox /\ b.kind = "integration"
    /\ \A c \in b.calls : c.result.state # "pending"
    /\ \E q \in Arrangements(b.calls) :
          dispatch_log' = dispatch_log \o
              [j \in 1..Len(q) |-> [event_id |-> b.event, hook_id |-> q[j].hookId,
                                    service |-> q[j].service, method |-> q[j].method,
                                    status |-> q[j].result.state,
                                    status_code |-> q[j].result.code,
                                    error |-> q[j].result.error]]
    /\ outbox' = outbox \ {b}
    /\ UNCHANGED <<kernel, nouns, nounCache, entities, events, now, inflight, race, throws, last,
                   subscriptions, integration_hooks, services, probe, consumer,
                   tenant_meta, hooks, tenant, objects>>

\* ------------------------------------------------------------ time travel
\* two objects with the same members, written with their keys in two orders
ObjAB == "o:{a:1,b:2}"
ObjBA == "o:{b:2,a:1}"
Objects == {ObjAB, ObjBA}

\* the keys of an object in insertion order, and its members
KeyOrder(v) == IF v = ObjAB THEN <<"a", "b">> ELSE <<"b", "a">>
Member(v, key) == IF key = "a" THEN "1" ELSE "2"

\* JSON.stringify(value): undefined for undefined, the members of an object
\* in insertion order, the literal of a scalar
JsonStringify(v) ==
    IF v = Undefined THEN <<"undefined">>
    ELSE IF v \in Objects
    THEN <<"object", [i \in 1..Len(KeyOrder(v)) |-> <<KeyOrder(v)[i], Member(v, KeyOrder(v)[i])>>]>>
    ELSE <<"literal", v>>

\* rowToFullEvent: conjugation.event, the column logEvent filled from the verb
ConjugationEvent(event) == ToPastParticiple(event.verb)

\* a reconstructed state: a document and its $deleted mark
AsState(doc, deleted) ==
    [f |-> doc.f, id |-> doc.id, type |-> doc.type, context |-> doc.context,
     version |-> doc.version, createdAt |-> doc.createdAt, updatedAt |-> doc.updatedAt,
     deleted |-> deleted]

\* Object.assign on the user fields
Assign(f, g) == [k \in (DOMAIN f) \cup (DOMAIN g) |-> IF k \in DOMAIN g THEN g[k] ELSE f[k]]

\* { $id, $type, $version } of an event without a snapshot
Bare(event) ==
    [f |-> EmptyMap, id |-> event.entityId, type |-> event.entityType, context |-> "",
     version |-> event.sequence, createdAt |-> 0 - 1, updatedAt |-> 0 - 1, deleted |-> FALSE]

\* one round of the loop of replayEvents
ReplayStep(state, event) ==
    IF ConjugationEvent(event) = "deleted"
    THEN IF state = Null THEN Null
         ELSE [state EXCEPT !.deleted = TRUE, !.version = event.sequence]
    ELSE IF event.after # Null
    THEN IF state = Null
         \* Object.assign({ $id, $type, $version }, afterState): the snapshot wins
         THEN AsState(event.after, FALSE)
         \* Object.assign({}, state, afterState, { $id, $type, $version })
         ELSE [AsState(event.after, state.deleted) EXCEPT
                 !.f = Assign(state.f, event.after.f),
                 !.id = event.entityId, !.type = event.entityType,
                 !.version = event.sequence]
    ELSE IF state = Null THEN Bare(event)
    ELSE [state EXCEPT !.version = event.sequence]

\* replayEvents(events)
RECURSIVE ReplayEvents(_)
ReplayEvents(evs) ==
    IF evs = <<>> THEN Null
    ELSE ReplayStep(ReplayEvents(SubSeq(evs, 1, Len(evs) - 1)), evs[Len(evs)])

\* ORDER BY sequence ASC over a set of rows of table events
BySequence(rows) ==
    LET n == Cardinality(rows)
        q == CHOOSE o \in [1..n -> rows] :
                /\ \A a, b \in 1..n : a # b => o[a] # o[b]
                /\ \A a, b \in 1..n : a < b => events[o[a]].sequence <= events[o[b]].sequence
    IN [j \in 1..n |-> events[q[j]]]

\* the query of timeTravelGet: the entity's events up to a version and a time
EventsUpTo(type, id, asOf, atVersion) ==
    BySequence({i \in EventsOf(type, id) :
                   /\ atVersion.k = "num" => events[i].sequence <= atVersion.v
                   /\ asOf.k = "num" => events[i].timestamp <= asOf.v})

\* timeTravelGet(type, id, { asOf, atVersion })
TimeTravelGet(type, id, asOf, atVersion) ==
    /\ kernel = "rpc" /\ Quiet
    /\ UNCHANGED <<kernel, aside, nouns, nounCache, entities, events, outbox, now, inflight, race, throws>>
    /\ LET rows == EventsUpTo(type, id, asOf, atVersion)
           state == ReplayEvents(rows)
           status == IF atVersion = NaN THEN 400
                     ELSE IF rows = <<>> \/ state = Null THEN 404 ELSE 200
       IN last' = [op |-> "timeTravel", verb |-> "get", type |-> type, id |-> id,
                   status |-> status, asOf |-> asOf, atVersion |-> atVersion,
                   data |-> IF status = 200 THEN state ELSE Null]

\* state?.[key] of computeChanges
StateGet(state, key) ==
    IF state = Null \/ key \notin DOMAIN state.f THEN Undefined ELSE state.f[key]

\* the keys not starting with '$' of a state
UserKeys(state) == IF state = Null THEN {} ELSE DOMAIN state.f

\* computeChanges(from, to)
ComputeChanges(from, to) ==
    {[field |-> key, from |-> StateGet(from, key), to |-> StateGet(to, key)] :
        key \in {k \in UserKeys(from) \cup UserKeys(to) :
                    JsonStringify(StateGet(from, k)) # JsonStringify(StateGet(to, k))}}

\* entityDiff(type, id, { from, to }): from and to as the route passes them,
\* absent, not a number or a number
EntityDiff(type, id, from, to) ==
    /\ kernel = "rpc" /\ Quiet
    /\ UNCHANGED <<kernel, aside, nouns, nounCache, entities, events, outbox, now, inflight, race, throws>>
    /\ IF from.k # "num" \/ to.k # "num"
       THEN last' = [op |-> "diff", verb |-> "get", type |-> type, id |-> id, status |-> 400,
                     from |-> from, to |-> to]
       ELSE IF EventsOf(type, id) = {}
       THEN last' = [op |-> "diff", verb |-> "get", type |-> type, id |-> id, status |-> 404,
                     from |-> from, to |-> to]
       ELSE LET all == BySequence(EventsOf(type, id))
                before == ReplayEvents(SelectSeq(all, LAMBDA e : e.sequence <= from.v))
                after == ReplayEvents(SelectSeq(all, LAMBDA e : e.sequence <= to.v))
            IN last' = [op |-> "diff", verb |-> "get", type |-> type, id |-> id, status |-> 200,
                        from |-> from, to |-> to, before |-> before, after |-> after,
                        events |-> SelectSeq(all, LAMBDA e : e.sequence > from.v /\ e.sequence <= to.v),
                        changes |-> ComputeChanges(before, after)]

\* ------------------------------------------------------------ the matcher alone
\* patterns a subscription may carry and the event types of the model
PatternInputs ==
    {<<"*">>, <<"*", "*">>, <<"Contact", "*">>, <<"Deal", "*">>, <<"*", "create">>,
     <<"*", "qualify">>, <<"Contact", "create">>, <<"Deal", "update">>, <<"Contact">>,
     <<"Contact", "*", "x">>}
EventTypeInputs == {<<t, v>> : t \in Types, v \in {"create", "update", "qualify"}}

\* a call of matchesPattern about to be made
Matcher(pattern, eventType) ==
    [f |-> "matchesPattern", pattern |-> pattern, eventType |-> eventType,
     done |-> FALSE, result |-> FALSE]

\* matchesPattern(pattern, eventType) is called
MatchApply ==
    /\ probe.f = "matchesPattern" /\ ~probe.done
    /\ probe' = [probe EXCEPT !.done = TRUE,
                              !.result = MatchesPattern(probe.pattern, probe.eventType)]
    /\ UNCHANGED <<kernel, nouns, nounCache, entities, events, now, inflight, race, throws, last,
                   subscriptions, integration_hooks, services, outbox, dispatch_log, consumer,
                   tenant_meta, hooks, tenant, objects>>

\* ------------------------------------------------------------ parallel updates
\* a client issues two updates of one live entity, both with its current version
RaceStart(type, id) ==
    /\ kernel = "rpc" /\ Quiet /\ Len(events) + 2 <= MaxEvents
    /\ LiveRows(type, id) # {}
    /\ TheLive(type, id).version + 1 <= MaxVersion
    /\ race' = [active |-> TRUE, type |-> type, id |-> id,
                v |-> TheLive(type, id).version,
                enabled |-> GetNoun(type) = NoSchema \/ "update" \notin GetNoun(type).disabledVerbs,
                res |-> <<>>]
    /\ UNCHANGED <<kernel, aside, nouns, nounCache, entities, events, outbox, now, inflight, throws, last>>

\* the kernel runs one of the two calls
RaceUpdate(patch, eid) ==
    /\ race # NoRace /\ Len(race.res) < 2
    /\ UpdateCall(race.type, race.id, patch, Num(race.v), NoHeader, eid)
    /\ race' = [race EXCEPT !.res = Append(@, last')]
    /\ UNCHANGED <<kernel, aside, nouns, now, inflight>>

\* both answers are in
RaceEnd ==
    /\ race # NoRace /\ Len(race.res) = 2
    /\ race' = NoRace
    /\ UNCHANGED <<kernel, aside, nouns, nounCache, entities, events, outbox, now, inflight, throws, last>>

\* ------------------------------------------------------------ fetch kernel
Suspend(h) == inflight' = Append(inflight, h)
Drop(i) == inflight' = [j \in 1..(Len(inflight) - 1) |-> IF j < i THEN inflight[j] ELSE inflight[j + 1]]
CanSuspend == Len(inflight) < MaxInflight /\ Len(events) + Len(inflight) < MaxEvents

\* handleCreateEntity up to `await request.json()`
FetchCreateBegin(type) ==
    /\ kernel = "fetch" /\ CanSuspend
    /\ nounCache' = LoadNouns
    /\ IF GetNoun(type) = NoSchema
       THEN Reject("create", "create", type, "none", 400) /\ UNCHANGED inflight
       ELSE IF "create" \in GetNoun(type).disabledVerbs
       THEN Reject("create", "create", type, "none", 403) /\ UNCHANGED inflight
       ELSE /\ Suspend([op |-> "create", type |-> type])
            /\ UNCHANGED <<entities, events, throws, outbox, last>>
    /\ UNCHANGED <<kernel, aside, nouns, now, race>>

\* handleCreateEntity after the body arrived
FetchCreateResume(i, data, id, contextUrl, eid) ==
    /\ kernel = "fetch" /\ i \in 1..Len(inflight) /\ inflight[i].op = "create"
    /\ CreateWrite(inflight[i].type, data, id, contextUrl, eid)
    /\ Drop(i)
    /\ UNCHANGED <<kernel, aside, nouns, nounCache, now, race>>

\* handleGetEntity
FetchGetEntity(type, id) ==
    /\ kernel = "fetch"
    /\ UNCHANGED <<kernel, aside, nouns, nounCache, entities, events, outbox, now, inflight, race, throws>>
    /\ IF LiveRows(type, id) = {}
       THEN last' = Answer("get", "get", type, id, 404, NoHeader, NoHeader, NoNum, NoNum, NoNum)
       ELSE last' = Answer("get", "get", type, id, 200, NoHeader, NoHeader, NoNum, NoNum,
                           Num(TheLive(type, id).data.version))

\* handleUpdateEntity up to `await request.json()`: the row is read here
FetchUpdateBegin(type, id) ==
    /\ kernel = "fetch" /\ CanSuspend
    /\ \A i \in LiveRows(type, id) : entities[i].version < MaxVersion
    /\ nounCache' = LoadNouns
    /\ IF GetNoun(type) # NoSchema /\ "update" \in GetNoun(type).disabledVerbs
       THEN Reject("update", "update", type, id, 403) /\ UNCHANGED inflight
       ELSE IF LiveRows(type, id) = {}
       THEN Reject("update", "update", type, id, 404) /\ UNCHANGED inflight
       ELSE /\ Suspend([op |-> "update", type |-> type, id |-> id,
                        existing |-> TheLive(type, id).data,
                        currentVersion |-> TheLive(type, id).version])
            /\ UNCHANGED <<entities, events, throws, outbox, last>>
    /\ UNCHANGED <<kernel, aside, nouns, now, race>>

\* handleUpdateEntity after the body arrived: the check and the write
FetchUpdateResume(i, patch, bodyVersion, ifMatch, eid) ==
    /\ kernel = "fetch" /\ i \in 1..Len(inflight) /\ inflight[i].op = "update"
    /\ UpdateWrite(inflight[i].type, inflight[i].id, inflight[i].existing,
                   inflight[i].currentVersion, patch, bodyVersion, ifMatch, eid)
    /\ Drop(i)
    /\ UNCHANGED <<kernel, aside, nouns, nounCache, now, race>>

\* handleDeleteEntity (no await: one step)
FetchDeleteEntity(type, id, eid) ==
    /\ kernel = "fetch" /\ Len(events) + Len(inflight) < MaxEvents
    /\ nounCache' = LoadNouns
    /\ IF GetNoun(type) # NoSchema /\ "delete" \in GetNoun(type).disabledVerbs
       THEN Reject("delete", "delete", type, id, 403)
       ELSE IF LiveRows(type, id) = {} THEN Reject("delete", "delete", type, id, 404)
       ELSE DeleteWrite(type, id, TheLive(type, id).data, eid)
    /\ UNCHANGED <<kernel, aside, nouns, now, inflight, race>>

\* handleExecuteVerb up to `await request.text()`: the row is read here
FetchVerbBegin(type, id, verb) ==
    /\ kernel = "fetch" /\ CanSuspend
    /\ \A i \in LiveRows(type, id) : entities[i].version < MaxVersion
    /\ nounCache' = LoadNouns
    /\ IF VerbCheck(GetNoun(type), verb) # 0
       THEN Reject("verb", verb, type, id, VerbCheck(GetNoun(type), verb)) /\ UNCHANGED inflight
       ELSE IF LiveRows(type, id) = {}
       THEN Reject("verb", verb, type, id, 404) /\ UNCHANGED inflight
       ELSE /\ Suspend([op |-> "verb", type |-> type, id |-> id, verb |-> verb,
                        existing |-> TheLive(type, id).data,
                        currentVersion |-> TheLive(type, id).version])
            /\ UNCHANGED <<entities, events, throws, outbox, last>>
    /\ UNCHANGED <<kernel, aside, nouns, now, race>>

\* handleExecuteVerb after the body arrived: the merge and the write
FetchVerbResume(i, verbData, eid) ==
    /\ kernel = "fetch" /\ i \in 1..Len(inflight) /\ inflight[i].op = "verb"
    /\ VerbWrite(inflight[i].type, inflight[i].id, inflight[i].verb, inflight[i].existing,
                 inflight[i].currentVersion, verbData, eid)
    /\ Drop(i)
    /\ UNCHANGED <<kernel, aside, nouns, nounCache, now, race>>

\* ------------------------------------------------------------ specification
\* ------------------------------------------------------------ fetch kernel: list
\* e[key] of a parsed document, undefined for a key it does not have
JsGet(doc, key) == IF key \in DOMAIN doc.f THEN doc.f[key] ELSE Undefined

\* a !== b is false: the same primitive, never two objects
StrictEquals(a, b) == a = b /\ a # ObjectValue

\* entities.filter(...): every pair of the filter strictly equals the field
JsFilter(doc, m) == \A k \in DOMAIN m : StrictEquals(JsGet(doc, k), m[k])

\* av < bv of the comparator, on a document field ($createdAt is a time)
JsLess(a, b, field) ==
    IF field = "$createdAt" THEN a.createdAt < b.createdAt
    ELSE /\ JsGet(a, field) \notin {Undefined, ObjectValue}
         /\ JsGet(b, field) \notin {Undefined, ObjectValue}
         /\ ValueRank(JsGet(a, field)) < ValueRank(JsGet(b, field))

\* the comparator is negative: a goes before b
JsBefore(a, b, sort) ==
    IF sort.dir = 1 THEN JsLess(a, b, sort.field) ELSE JsLess(b, a, sort.field)

\* Array.prototype.sort, which is stable: the arrangement of docs in which no
\* document follows one it goes before, equal ones keeping their order
JsSort(docs, sort) ==
    LET n == Len(docs)
        perm == CHOOSE q \in [1..n -> 1..n] :
                    /\ \A a, b \in 1..n : a # b => q[a] # q[b]
                    /\ \A a, b \in 1..n :
                          a < b => /\ ~JsBefore(docs[q[b]], docs[q[a]], sort)
                                   /\ (~JsBefore(docs[q[a]], docs[q[b]], sort)) => q[a] < q[b]
    IN [j \in 1..n |-> docs[perm[j]]]

\* the elements of a sequence that pass a test, in their order
RECURSIVE Filtered(_, _)
Filtered(docs, m) ==
    IF docs = <<>> THEN <<>>
    ELSE IF JsFilter(Head(docs), m) THEN <<Head(docs)>> \o Filtered(Tail(docs), m)
    ELSE Filtered(Tail(docs), m)

\* SELECT data FROM entities WHERE type = ? AND deleted_at IS NULL
FetchListWhere(type) ==
    {i \in 1..Len(entities) : entities[i].type = type /\ entities[i].deleted_at = Null}

\* handleListEntities(type, params): the page is cut by LIMIT and OFFSET in
\* the query, then filtered and sorted in memory; the count has no filter
FetchListEntities(type, params) ==
    /\ kernel = "fetch"
    /\ UNCHANGED <<kernel, aside, nouns, nounCache, entities, events, outbox, now, inflight, race, throws>>
    /\ IF params.filter = BadJson
       THEN last' = [op |-> "list", verb |-> "list", type |-> type, id |-> "none",
                     status |-> 400, params |-> params]
       ELSE \E s \in Orders(FetchListWhere(type), NoSort) :
               LET page == Window(s, Limit(params), Offset(params))
                   rows == [j \in 1..Len(page) |-> entities[page[j]].data]
                   kept == IF params.filter = NoFilter THEN rows
                           ELSE Filtered(rows, params.filter.m)
                   data == IF params.sort.k = "json" THEN JsSort(kept, params.sort) ELSE kept
                   total == Cardinality(FetchListWhere(type))
               IN last' = [op |-> "list", verb |-> "list", type |-> type, id |-> "none",
                           status |-> 200, params |-> params, data |-> data,
                           total |-> total,
                           limit |-> Limit(params), offset |-> Offset(params),
                           hasMore |-> Offset(params) + Len(data) < total]

Tick ==
    /\ Quiet /\ now < MaxTime
    /\ now' = now + 1
    /\ UNCHANGED <<kernel, aside, nouns, nounCache, entities, events, outbox, inflight, race, throws, last>>

Define == \E n \in NameInputs, d \in Definitions : DefineNoun(n, d)

RpcNext ==
    \/ \E t \in Types, d \in CreateInputs, id \in EntityIdDraws, c \in Contexts, e \in EventIdDraws :
          CreateEntity(t, d, id, c, e)
    \/ \E t \in Types, id \in EntityIdDraws : GetEntity(t, id)
    \/ \E t \in Types, id \in EntityIdDraws, p \in Patches, pre \in PlainPreconditions,
          e \in EventIdDraws :
          UpdateEntity(t, id, p, pre[1], pre[2], e)
    \/ \E t \in Types, id \in EntityIdDraws, e \in EventIdDraws : DeleteEntity(t, id, e)
    \/ \E t \in Types, id \in EntityIdDraws, v \in VerbInputs, p \in VerbPayloads, e \in EventIdDraws :
          ExecuteVerb(t, id, v, p, e)

RaceNext ==
    \/ \E t \in Types, id \in EntityIdDraws : RaceStart(t, id)
    \/ \E p \in Patches, e \in EventIdDraws : RaceUpdate(p, e)
    \/ RaceEnd

FetchNext ==
    \/ \E t \in Types : FetchCreateBegin(t)
    \/ \E i \in 1..MaxInflight, d \in CreateInputs, id \in EntityIdDraws, c \in Contexts, e \in EventIdDraws :
          FetchCreateResume(i, d, id, c, e)
    \/ \E t \in Types, id \in EntityIdDraws : FetchGetEntity(t, id)
    \/ \E t \in Types, id \in EntityIdDraws : FetchUpdateBegin(t, id)
    \/ \E i \in 1..MaxInflight, p \in Patches, pre \in PlainPreconditions, e \in EventIdDraws :
          FetchUpdateResume(i, p, pre[1], pre[2], e)
    \/ \E t \in Types, id \in EntityIdDraws, e \in EventIdDraws : FetchDeleteEntity(t, id, e)
    \/ \E t \in Types, id \in EntityIdDraws, v \in VerbInputs : FetchVerbBegin(t, id, v)
    \/ \E i \in 1..MaxInflight, p \in VerbPayloads, e \in EventIdDraws : FetchVerbResume(i, p, e)

\* the list calls: every input on the defined noun, the default one on a
\* type no noun defines
ListCalls ==
    {<<n, p>> : n \in NounNames, p \in ListInputs}
        \cup {<<t, ListParams(NoFilter, NoNum, NoNum, NoSort)>> : t \in Types}

ListNext == \E c \in ListCalls : ListEntities(c[1], c[2])

\* the RPC kernel serving one call at a time
Next == Define \/ RpcNext
Spec == Init /\ [][Next]_vars

\* the RPC kernel and a client that issues two updates in parallel
NextRace == Define \/ RpcNext \/ RaceNext
SpecRace == Init /\ [][NextRace]_vars

\* the fetch kernel
NextFetch == Define \/ FetchNext
SpecFetch == FetchInit /\ [][NextFetch]_vars

\* the mutating calls of the RPC kernel: on the defined noun, and creates
\* on every type
AnyRpc ==
    \/ \E t \in Types, d \in CreateInputs, id \in EntityIdDraws, c \in Contexts, e \in EventIdDraws :
          CreateEntity(t, d, id, c, e)
    \/ \E n \in NounNames, id \in EntityIdDraws, p \in Patches, pre \in PlainPreconditions,
          e \in EventIdDraws :
          UpdateEntity(n, id, p, pre[1], pre[2], e)
    \/ \E n \in NounNames, id \in EntityIdDraws, e \in EventIdDraws : DeleteEntity(n, id, e)
    \/ \E n \in NounNames, id \in EntityIdDraws, v \in {"qualify", "archive"},
          p \in VerbPayloads, e \in EventIdDraws :
          ExecuteVerb(n, id, v, p, e)

\* the same requests to the fetch kernel
AnyFetch ==
    \/ \E t \in Types : FetchCreateBegin(t)
    \/ \E i \in 1..MaxInflight, d \in CreateInputs, id \in EntityIdDraws, c \in Contexts, e \in EventIdDraws :
          FetchCreateResume(i, d, id, c, e)
    \/ \E n \in NounNames, id \in EntityIdDraws : FetchUpdateBegin(n, id)
    \/ \E i \in 1..MaxInflight, p \in Patches, pre \in PlainPreconditions, e \in EventIdDraws :
          FetchUpdateResume(i, p, pre[1], pre[2], e)
    \/ \E n \in NounNames, id \in EntityIdDraws, e \in EventIdDraws : FetchDeleteEntity(n, id, e)
    \/ \E n \in NounNames, id \in EntityIdDraws, v \in {"qualify", "archive"} :
          FetchVerbBegin(n, id, v)
    \/ \E i \in 1..MaxInflight, p \in VerbPayloads, e \in EventIdDraws : FetchVerbResume(i, p, e)

\* either kernel
InitAny == Init \/ FetchInit
NextAny == Define \/ AnyRpc \/ AnyFetch
SpecAny == InitAny /\ [][NextAny]_vars

\* updates under every precondition a request can carry, among calls whose
\* event ids never collide
CasOps ==
    \/ \E t \in Types, d \in CreateInputs, id \in EntityIdDraws, c \in Contexts :
          CreateEntity(t, d, id, c, Len(events) + 1)
    \/ \E t \in Types, id \in EntityIdDraws, p \in Patches, pre \in Preconditions :
          UpdateEntity(t, id, p, pre[1], pre[2], Len(events) + 1)
    \/ \E t \in Types, id \in EntityIdDraws : DeleteEntity(t, id, Len(events) + 1)
    \/ \E t \in Types, id \in EntityIdDraws, p \in VerbPayloads :
          ExecuteVerb(t, id, "qualify", p, Len(events) + 1)

\* the RPC kernel under optimistic concurrency
NextCas == Define \/ CasOps
SpecCas == Init /\ [][NextCas]_vars

\* the calls that change what a list returns, on a noun with every verb
\* enabled and with event ids that never collide
ListOps ==
    \/ \E n \in NounNames : DefineNoun(n, AllEnabled)
    \/ \E t \in Types, d \in CreateInputs, id \in EntityIdDraws, c \in Contexts :
          CreateEntity(t, d, id, c, Len(events) + 1)
    \/ \E n \in NounNames, id \in EntityIdDraws : GetEntity(n, id)
    \/ \E n \in NounNames, id \in EntityIdDraws, p \in Patches :
          UpdateEntity(n, id, p, NoHeader, NoHeader, Len(events) + 1)
    \/ \E n \in NounNames, id \in EntityIdDraws : DeleteEntity(n, id, Len(events) + 1)
    \/ \E n \in NounNames, id \in EntityIdDraws, p \in VerbPayloads :
          ExecuteVerb(n, id, "qualify", p, Len(events) + 1)

\* the RPC kernel with its list queries and a running clock
NextList == ListOps \/ ListNext \/ Tick
SpecList == Init /\ [][NextList]_vars

\* the list queries sent to the fetch kernel
FetchListInputs ==
    {ListParams(NoFilter, NoNum, NoNum, NoSort),
     ListParams(BadJson, NoNum, NoNum, NoSort),
     ListParams(NoFilter, Num(1), Num(1), SortBy("$createdAt", 1)),
     ListParams(NoFilter, NoNum, NoNum, BadJson),
     ListParams(JsonFilter([k \in {"stage"} |-> "s:Lead"]), Num(1), NoNum, NoSort),
     ListParams(JsonFilter([k \in {"stage"} |-> "s:Cust"]), NoNum, NoNum, SortBy("stage", 0 - 1)),
     ListParams(JsonFilter([k \in {"owner"} |-> JsonNull]), NoNum, NoNum, NoSort),
     ListParams(JsonFilter([k \in {"stage"} |-> ObjectValue]), NoNum, NoNum, NoSort)}

\* the requests that change what a list returns, and the list handler
FetchListOps ==
    \/ \E n \in NounNames : DefineNoun(n, AllEnabled)
    \/ \E n \in NounNames : FetchCreateBegin(n)
    \/ \E i \in 1..MaxInflight, d \in CreateInputs, id \in EntityIdDraws, c \in Contexts :
          FetchCreateResume(i, d, id, c, Len(events) + 1)
    \/ \E n \in NounNames, id \in EntityIdDraws : FetchUpdateBegin(n, id)
    \/ \E i \in 1..MaxInflight, p \in Patches :
          FetchUpdateResume(i, p, NoHeader, NoHeader, Len(events) + 1)
    \/ \E n \in NounNames, id \in EntityIdDraws : FetchDeleteEntity(n, id, Len(events) + 1)
    \/ \E n \in NounNames, p \in FetchListInputs : FetchListEntities(n, p)

\* the fetch kernel with its list handler and a running clock
NextFetchList == FetchListOps \/ Tick
SpecFetchList == FetchInit /\ [][NextFetchList]_vars

\* listEntities' paging applied to tables of every size
PageInit == \E c \in PageInputs : InitWith("rpc", {}, Pager(c[1], c[2]))
SpecPage == PageInit /\ [][PageNext]_vars

\* patches that write an object, with its keys in either order
ReplayPatches == Patches \cup {[k \in {"stage"} |-> o] : o \in Objects}

\* the versions a time-travel request names
VersionInputs == {NoNum, NaN} \cup {Num(n) : n \in 1..MaxEvents}

\* the <<from, to>> a diff request names
DiffInputs ==
    {<<NoNum, Num(1)>>, <<Num(1), NaN>>, <<Num(0), Num(1)>>, <<Num(2), Num(1)>>}
        \cup {<<Num(a), Num(b)>> : a \in 1..2, b \in 2..MaxEvents}

\* the RPC kernel's writes on one noun, event ids colliding or not, and its
\* time-travel reads
ReplayOps ==
    \/ \E n \in NounNames : DefineNoun(n, AllEnabled)
    \/ \E n \in NounNames, d \in CreateInputs, id \in EntityIdDraws, c \in Contexts, e \in EventIdDraws :
          CreateEntity(n, d, id, c, e)
    \/ \E n \in NounNames, id \in EntityIdDraws, p \in ReplayPatches, e \in EventIdDraws :
          UpdateEntity(n, id, p, NoHeader, NoHeader, e)
    \/ \E n \in NounNames, id \in EntityIdDraws, e \in EventIdDraws : DeleteEntity(n, id, e)
    \/ \E n \in NounNames, id \in EntityIdDraws, v \in {"qualify", "delete"}, p \in VerbPayloads,
          e \in EventIdDraws :
          ExecuteVerb(n, id, v, p, e)
    \/ \E n \in NounNames, id \in EntityIdDraws, v \in VersionInputs :
          TimeTravelGet(n, id, NoNum, v)
    \/ \E n \in NounNames, id \in EntityIdDraws, t \in {0 - 1, 0} :
          TimeTravelGet(n, id, Num(t), NoNum)
    \/ \E n \in NounNames, id \in EntityIdDraws, d \in DiffInputs :
          EntityDiff(n, id, d[1], d[2])

NextReplay == ReplayOps
SpecReplay == Init /\ [][NextReplay]_vars

\* a patch and a verb payload that carry meta keys of their own
MetaPatch ==
    [k \in {"stage", "$id", "$type", "$context", "$createdAt"} |->
        CASE k = "stage" -> "s:Cust"
          [] k = "$id" -> "e9"
          [] k = "$type" -> "Deal"
          [] k = "$context" -> "https://headless.ly/~other"
          [] k = "$createdAt" -> MaxTime + 1]
MetaPayload ==
    [k \in {"stage", "$id", "$type", "$context", "$createdAt", "$version"} |->
        IF k = "$version" THEN MaxVersion + 1 ELSE MetaPatch[k]]

\* the RPC kernel's writes, given patches and payloads with meta keys; an
\* update's $version is the expected version of its precondition
MetaOps ==
    \/ \E n \in NounNames : DefineNoun(n, AllEnabled)
    \/ \E n \in NounNames, d \in CreateInputs, c \in Contexts, e \in EventIdDraws :
          CreateEntity(n, d, EntityIds[1], c, e)
    \/ \E n \in NounNames, p \in {MetaPatch} \cup Patches,
          pre \in PlainPreconditions, e \in EventIdDraws :
          UpdateEntity(n, EntityIds[1], p, pre[1], pre[2], e)
    \/ \E n \in NounNames, e \in EventIdDraws : DeleteEntity(n, EntityIds[1], e)
    \/ \E n \in NounNames, e \in EventIdDraws :
          ExecuteVerb(n, EntityIds[1], "qualify", MetaPayload, e)

NextMeta == MetaOps \/ Tick
SpecMeta == Init /\ [][NextMeta]_vars

\* matchesPattern applied to every pattern and event type
MatchInit == \E p \in PatternInputs, t \in EventTypeInputs : InitWith("rpc", {}, Matcher(p, t))
SpecMatch == MatchInit /\ [][MatchApply]_vars

\* the service bindings a deployment may have
EnvInputs == {{}, {"PAYMENTS"}, {"REPO"}}

\* the RPC kernel with subscriptions and bound services: writes on one noun,
\* and the outbound requests they start
DispatchOps ==
    \/ \E n \in NounNames : DefineNoun(n, AllEnabled)
    \/ /\ Cardinality(outbox) <= MaxOutbox /\ Len(events) < MaxDispatched
       /\ \/ \E n \in NounNames, d \in CreateInputs, c \in Contexts :
                CreateEntity(n, d, EntityIds[1], c, Len(events) + 1)
          \/ \E n \in NounNames : DeleteEntity(n, EntityIds[1], Len(events) + 1)
          \/ \E n \in NounNames, p \in VerbPayloads :
                ExecuteVerb(n, EntityIds[1], "qualify", p, Len(events) + 1)
    \/ \E b \in SubInputs, id \in SubIdDraws : CreateSubscription(b, id)
    \/ \E id \in 1..MaxSubs : DeleteSubscription(id)
    \/ \E d \in outbox, o \in {"ok", "rejected"} : WebhookSigns(d, o)
    \/ \E d \in outbox, o \in Outcomes : WebhookSettles(d, o)
    \/ \E b \in outbox : \E c \in (IF b.kind = "integration" THEN b.calls ELSE {}), o \in Outcomes :
          ServiceAnswers(b, c, o)
    \/ \E b \in outbox : LogDispatchResults(b)

DispatchInit == \E env \in EnvInputs : InitEnv("rpc", env)
\* deployments without a binding and with the one the built-in Contact hooks name
BoundInit == \E env \in {{}, {"PAYMENTS"}} : InitEnv("rpc", env)
SpecDispatch == BoundInit /\ [][DispatchOps]_vars

\* the hook registry of the RPC kernel: tenant hooks come and go and the
\* registry is listed
HookOps ==
    \/ \E b \in HookInputs, id \in HookIdDraws : CreateIntegrationHook(b, id)
    \/ \E id \in HookIdInputs : DeleteIntegrationHook(id)
    \/ ListIntegrationHooks
\* writes on one noun, the calls they start, and the logging of the results
WriteOps ==
    \/ \E n \in NounNames : DefineNoun(n, AllEnabled)
    \/ /\ Len(events) < MaxDispatched
       /\ \/ \E n \in NounNames, d \in CreateInputs, c \in Contexts :
                CreateEntity(n, d, EntityIds[1], c, Len(events) + 1)
          \/ \E n \in NounNames, p \in VerbPayloads :
                ExecuteVerb(n, EntityIds[1], "qualify", p, Len(events) + 1)
SettleOps ==
    \E b \in outbox : \E c \in (IF b.kind = "integration" THEN b.calls ELSE {}), o \in Outcomes :
        ServiceAnswers(b, c, o)
LogOps == \E b \in outbox : LogDispatchResults(b)

NextHooks == HookOps \/ Tick
SpecHooks == DispatchInit /\ [][NextHooks]_vars

\* the kernel with its hooks configured before the first write: writes on
\* one noun start integration batches, every service call settles and every
\* settled batch reaches its .then
NextHooksFair == (events = <<>> /\ HookOps) \/ WriteOps \/ SettleOps \/ LogOps
SpecHooksFair ==
    /\ DispatchInit /\ [][NextHooksFair]_vars
    /\ WF_vars(SettleOps) /\ WF_vars(LogOps)

\* findMatchingHooks on its own: entity types, verbs and tenant hook lists
HookObject(id, entityType, verb, service, active) ==
    [id |-> <<"ihook", id>>, entityType |-> entityType, verb |-> verb, service |-> service,
     method |-> "POST /hook", active |-> active]
TenantHookInputs ==
    SUBSET {HookObject(1, "*", "*", "EVENTS", TRUE),
            HookObject(2, "Contact", "*", "REPO", TRUE),
            HookObject(3, "*", "close", "OAUTH", FALSE),
            HookObject(4, "Deal", "close", "PAYMENTS", TRUE)}
FindTypeInputs == {"Contact", "Deal", "Lead"}
FindVerbInputs == {"create", "qualify", "close", "archive"}

Finder(entityType, verb, tenantHooks) ==
    [f |-> "findMatchingHooks", entityType |-> entityType, verb |-> verb,
     tenantHooks |-> tenantHooks, done |-> FALSE, result |-> {}]

FindApply ==
    /\ probe.f = "findMatchingHooks" /\ ~probe.done
    /\ probe' = [probe EXCEPT !.done = TRUE,
                              !.result = FindMatchingHooks(probe.entityType, probe.verb, probe.tenantHooks)]
    /\ UNCHANGED <<kernel, nouns, nounCache, entities, events, now, inflight, race, throws, last,
                   subscriptions, integration_hooks, services, outbox, dispatch_log, consumer,
                   tenant_meta, hooks, tenant, objects>>

FindInit ==
    \E t \in FindTypeInputs, v \in FindVerbInputs, h \in TenantHookInputs :
        InitWith("rpc", {}, Finder(t, v, h))
SpecFind == FindInit /\ [][FindApply]_vars

\* the noun registry: definitions accepted and rejected, reads of the
\* registry, and entity writes that read it
NounOps ==
    \/ Define
    \/ ListNouns
    \/ \E n \in NameInputs : GetNounSchema(n)
    \/ \E t \in Types, d \in CreateInputs, c \in Contexts :
          CreateEntity(t, d, EntityIds[1], c, Len(events) + 1)
    \/ \E t \in Types, p \in VerbPayloads :
          ExecuteVerb(t, EntityIds[1], "qualify", p, Len(events) + 1)
SpecNouns == Init /\ [][NounOps]_vars

\* event ids as generateEventId mints them: any id no event has
FreeEventIds == {n \in 1..MaxEvents : ~EventIdTaken(n)}

\* writes on one noun, the clock, and a CDC client that reconnects
StreamOps ==
    \/ \E n \in NounNames : DefineNoun(n, AllEnabled)
    \/ \E n \in NounNames, d \in CreateInputs, c \in Contexts, e \in FreeEventIds :
          CreateEntity(n, d, EntityIds[1], c, e)
    \/ \E n \in NounNames, p \in VerbPayloads, e \in FreeEventIds :
          ExecuteVerb(n, EntityIds[1], "qualify", p, e)
    \/ Tick
NextStream == StreamOps \/ Reconnect
SpecStream ==
    /\ Init /\ [][NextStream]_vars
    /\ WF_vars(Reconnect)

\* ------------------------------------------------------------ properties
Mutations == {"create", "update", "delete", "verb"}
Succeeded == last.op \in Mutations /\ last.status \in {200, 201}
Rejected == last.op \in Mutations /\ last.status \in {400, 403, 404, 409}
LastEvent == events[Len(events)]

\* C1 (I-Seq): in either kernel, the events of every (entityType, entityId)
\* carry, in commit order, the sequence numbers 1, 2, .., N: the k-th event
\* of an entity has sequence k.
C1_SequencesContiguous ==
    \A i \in 1..Len(events) :
        events[i].sequence =
            Cardinality({j \in EventsOf(events[i].entityType, events[i].entityId) : j <= i})

\* two entities have events, one of them more than one
C1_Witness ==
    \E i, j, k \in 1..Len(events) :
        /\ i < j
        /\ events[i].entityId = events[j].entityId
        /\ events[k].entityId # events[i].entityId

\* C2 (I-Version): after a successful create, update, delete or verb the
\* version on the entity row equals the sequence of the event it appended.
C2_VersionIsSequence ==
    Succeeded =>
        \E i \in 1..Len(entities) :
            /\ entities[i].id = last.id
            /\ entities[i].version = LastEvent.sequence

\* C3: a successful mutation appends exactly one event, and it is an event
\* of the target entity; a call rejected with 400, 403, 404 or 409 appends
\* no event and changes no entity row.
C3_OneEventPerMutation ==
    /\ Succeeded =>
          /\ last.logged = 1
          /\ LastEvent.entityType = last.type
          /\ LastEvent.entityId = last.id
    /\ Rejected => (last.logged = 0 /\ ~last.wrote)

\* a verb has run on an entity and its event is the newest of the log
C3_Witness ==
    /\ last.op = "verb" /\ last.status = 200
    /\ Len(events) >= 2 /\ LastEvent.verb = "qualify"

\* C4: a mutation and its event are persisted together or not at all: a
\* call changes table entities exactly when it appends its event.
C4_RowAndEventTogether ==
    last.op \in Mutations => (last.wrote <=> last.logged = 1)

\* C5: of two parallel updates of an entity at version v that both expect
\* v, exactly one succeeds with version v + 1 and the other gets 409 with
\* currentVersion v + 1 and expectedVersion v.
C5_ExactlyOneWins ==
    (race # NoRace /\ Len(race.res) = 2 /\ race.enabled) =>
        \E a, b \in 1..2 :
            /\ a # b
            /\ race.res[a].status = 200 /\ race.res[a].ver = Num(race.v + 1)
            /\ race.res[b].status = 409
            /\ race.res[b].cur = Num(race.v + 1) /\ race.res[b].exp = Num(race.v)

\* C6: the fetch kernel serves concurrent requests as if one at a time: as
\* in every serial order, each write of an entity starts from the version
\* the write before it left, so the versions the events of an entity
\* record as written grow along the log.
C6_Serializable ==
    \A i, j \in 1..Len(events) :
        (/\ i < j
         /\ events[i].entityType = events[j].entityType
         /\ events[i].entityId = events[j].entityId
         /\ events[i].after # Null /\ events[j].after # Null)
            => events[i].after.version < events[j].after.version

\* the last call is an update of a live entity that expects another version
Differs ==
    /\ last.op = "update" /\ last.pre # NoNum
    /\ last.sup # NoNum
    /\ last.sup # last.pre

Conflict409 ==
    /\ last.status = 409
    /\ last.cur = last.pre
    /\ ~last.wrote /\ last.logged = 0

UpdateEnabled(type) == GetNoun(type) = NoSchema \/ "update" \notin GetNoun(type).disabledVerbs

\* C7 as stated: an update of a live entity with an expected version other
\* than the current one answers 409 with the current version and changes
\* neither the row nor the log.
C7_Original == Differs => Conflict409

\* C7: an update of a live entity whose noun does not disable update, with
\* an expected version other than the current one, answers 409 with the
\* current version and changes neither the row nor the log.
C7_ConflictWhenEnabled == (Differs /\ UpdateEnabled(last.type)) => Conflict409

\* an expected version that is behind the row was answered 409
C7_Witness ==
    /\ Differs /\ last.status = 409
    /\ last.pre.v > last.sup.v

\* deleteEntity has succeeded for (type, id): its event is in the log
DeletedBy(type, id) ==
    \E i \in EventsOf(type, id) : events[i].verb = "delete" /\ events[i].after = Null

\* deleted_at stays set, and the delete event is the entity's last event
StaysDeleted ==
    /\ \A r \in 1..Len(entities) :
          DeletedBy(entities[r].type, entities[r].id) => entities[r].deleted_at # Null
    /\ \A i, j \in 1..Len(events) :
          (/\ events[i].entityType = events[j].entityType
           /\ events[i].entityId = events[j].entityId
           /\ events[i].verb = "delete" /\ events[i].after = Null) => j <= i

\* the last call came after a successful delete of its target
AfterDelete ==
    /\ last.op \in {"get", "update", "delete", "verb"}
    /\ DeletedBy(last.type, last.id)
    /\ ~(last.op = "delete" /\ last.status = 200)

\* C8 as stated: after a successful delete, deleted_at is never cleared, no
\* further event is appended for the entity, and every later get, update,
\* delete and verb on it answers 404.
C8_Original == StaysDeleted /\ (AfterDelete => last.status = 404)

\* the answer of the checks that come before the row lookup, 0 if they pass
Precheck ==
    CASE last.op = "get" -> 0
      [] last.op = "update" -> IF UpdateEnabled(last.type) THEN 0 ELSE 403
      [] last.op = "delete" ->
            IF GetNoun(last.type) = NoSchema \/ "delete" \notin GetNoun(last.type).disabledVerbs
            THEN 0 ELSE 403
      [] last.op = "verb" ->
            IF GetNoun(last.type) = NoSchema THEN 400
            ELSE IF last.verb \notin GetNoun(last.type).verbs THEN 400
            ELSE 0

\* C8: after a successful delete, deleted_at is never cleared, no further
\* event is appended for the entity, and every later get, update, delete
\* and verb on it is refused: with 404, unless the check of the verb
\* refuses it first (403 for a disabled update or delete, 400 for a verb
\* the noun does not define).
C8_DeletedStaysGone ==
    /\ StaysDeleted
    /\ AfterDelete => last.status = (IF Precheck = 0 THEN 404 ELSE Precheck)

\* an update of a deleted entity was answered 404
C8_Witness ==
    /\ last.op = "update" /\ last.status = 404
    /\ DeletedBy(last.type, last.id)

LiveOfType(type) ==
    {i \in 1..Len(entities) : entities[i].type = type /\ entities[i].deleted_at = Null}

\* C9 (I-Soft): getEntity answers 200 only for a row that is not deleted;
\* every entity listEntities returns, for any filter, sort, limit and
\* offset, is a row that is not deleted, and meta.total counts no deleted
\* row: it is at most the number of live rows of the type, and equal to it
\* without a filter.
C9_NoDeletedRead ==
    /\ (last.op = "get" /\ last.status = 200) =>
          \E i \in LiveOfType(last.type) : entities[i].id = last.id
    /\ (last.op = "list" /\ last.status = 200) =>
          /\ \A j \in 1..Len(last.data) :
                \E i \in LiveOfType(last.type) : entities[i].id = last.data[j].id
          /\ last.total <= Cardinality(LiveOfType(last.type))
          /\ last.params.filter = NoFilter => last.total = Cardinality(LiveOfType(last.type))

\* a list of a type with a deleted row and a live row returned the live one
C9_Witness ==
    /\ last.op = "list" /\ last.status = 200
    /\ Len(last.data) >= 1
    /\ \E i \in 1..Len(entities) :
          entities[i].type = last.type /\ entities[i].deleted_at # Null

\* an entity matches a filter: every pair of it holds of the document
\* (null: the field is absent or null, else: the field equals the value)
DocMatches(doc, m) ==
    \A k \in DOMAIN m :
        IF m[k] = JsonNull THEN k \notin DOMAIN doc.f \/ doc.f[k] = JsonNull
        ELSE k \in DOMAIN doc.f /\ doc.f[k] = m[k]

\* C10 (I-Filter): every entity listEntities returns under a filter F
\* matches every pair of F, and meta.total is the number of live entities
\* of the type that match F.
C10_FilterApplied ==
    (last.op = "list" /\ last.status = 200 /\ last.params.filter.k = "json") =>
        /\ \A j \in 1..Len(last.data) : DocMatches(last.data[j], last.params.filter.m)
        /\ last.total = Cardinality({i \in LiveOfType(last.type) :
                                        DocMatches(entities[i].data, last.params.filter.m)})

\* the live entities of last.type that match the filter of the last list
Matching ==
    IF last.params.filter = NoFilter THEN LiveOfType(last.type)
    ELSE {i \in LiveOfType(last.type) : DocMatches(entities[i].data, last.params.filter.m)}

\* C11 (I-Filter): the list handler of the fetch kernel filters before it
\* paginates: under a filter F and a limit L >= 0 it returns only entities
\* that match F, as many as there are from the offset on up to L, and
\* meta.total and meta.hasMore are those of the entities matching F.
C11_FilterBeforePagination ==
    (kernel = "fetch" /\ last.op = "list" /\ last.status = 200 /\ last.limit >= 0) =>
        LET n == Cardinality(Matching)
            rest == IF n > last.offset THEN n - last.offset ELSE 0
        IN /\ \A j \in 1..Len(last.data) :
                 \E i \in Matching : entities[i].data = last.data[j]
           /\ Len(last.data) = IF rest < last.limit THEN rest ELSE last.limit
           /\ last.total = n
           /\ last.hasMore = (last.offset + Len(last.data) < n)

\* the client has seen every row of the table
SeenAll == probe.seen = 1..probe.rows

C13_PageSizeCapped ==
    (probe.f = "listEntities" /\ probe.pages > 0) =>
        /\ probe.len <= LimitCap
        /\ probe.limit = NoNum => probe.len <= DefaultLimit

\* the entity's events in sequence order, up to version v
Upto(type, id, v) == BySequence({i \in EventsOf(type, id) : events[i].sequence <= v})

\* the fold of 4.7: a deleted event marks the state deleted and advances its
\* version; any other event merges its after snapshot into the state, which
\* keeps the entity's id and type and takes the event's sequence as version
FoldStep(state, event) ==
    IF ConjugationEvent(event) = "deleted"
    THEN IF state = Null THEN Null
         ELSE [state EXCEPT !.deleted = TRUE, !.version = event.sequence]
    ELSE LET base == IF state = Null THEN Bare(event) ELSE state
         IN IF event.after = Null THEN [base EXCEPT !.version = event.sequence]
            ELSE [AsState(event.after, base.deleted) EXCEPT
                    !.f = Assign(base.f, event.after.f),
                    !.id = event.entityId, !.type = event.entityType,
                    !.version = event.sequence]

RECURSIVE Fold(_)
Fold(evs) ==
    IF evs = <<>> THEN Null
    ELSE FoldStep(Fold(SubSeq(evs, 1, Len(evs) - 1)), evs[Len(evs)])

\* C14 (I-Replay): for an entity with N events and v in 1..N,
\* timeTravelGet(atVersion = v) returns the state obtained by folding the
\* entity's events 1..v in sequence order from a null state, and the
\* $version of that state is v.
C14_ReplayIsFold ==
    (/\ last.op = "timeTravel" /\ last.asOf = NoNum /\ last.atVersion.k = "num"
     /\ last.atVersion.v >= 1
     /\ last.atVersion.v <= Cardinality(EventsOf(last.type, last.id))) =>
        /\ last.status = 200
        /\ last.data = Fold(Upto(last.type, last.id, last.atVersion.v))
        /\ last.data.version = last.atVersion.v

\* what a value is, whatever the order its keys were written in
Structure(v) ==
    IF v = Undefined THEN <<"undefined">>
    ELSE IF v \in Objects
    THEN <<"object", {<<KeyOrder(v)[i], Member(v, KeyOrder(v)[i])>> : i \in 1..Len(KeyOrder(v))}>>
    ELSE <<"literal", v>>

\* C15: entityDiff(from, to) returns as events exactly the entity's events
\* with from < sequence <= to in ascending sequence order, and as changes
\* exactly one {field, from, to} for each key not starting with '$' whose
\* value differs between the state reconstructed at from and the state
\* reconstructed at to, and none for a key whose values are equal.
C15_DiffIsExact ==
    (last.op = "diff" /\ last.status = 200) =>
        /\ last.before = ReplayEvents(Upto(last.type, last.id, last.from.v))
        /\ last.after = ReplayEvents(Upto(last.type, last.id, last.to.v))
        /\ {last.events[j] : j \in 1..Len(last.events)} =
              {events[i] : i \in {k \in EventsOf(last.type, last.id) :
                                    /\ events[k].sequence > last.from.v
                                    /\ events[k].sequence <= last.to.v}}
        /\ \A a, b \in 1..Len(last.events) :
              a < b => last.events[a].sequence < last.events[b].sequence
        /\ last.changes =
              {[field |-> key, from |-> StateGet(last.before, key), to |-> StateGet(last.after, key)] :
                  key \in {k \in UserKeys(last.before) \cup UserKeys(last.after) :
                              Structure(StateGet(last.before, k)) # Structure(StateGet(last.after, k))}}

\* C16 (E1): no operation of the kernel modifies or removes an event:
\* across every step the previous event log is contained in the new one,
\* every field of every event unchanged.
C16_EventsImmutable ==
    [][/\ Len(events') >= Len(events)
       /\ \A i \in 1..Len(events) : events'[i] = events[i]]_vars

\* two mutations of one entity have each left their event
C16_Witness ==
    \E i, j \in 1..Len(events) :
        /\ i < j
        /\ events[i].entityId = events[j].entityId
        /\ events[i].verb = "create" /\ events[j].verb # "create"

\* C17: whatever an update patch or a verb payload contains ($id, $type,
\* $context, $createdAt and $version included), every stored entity keeps
\* the $id, $type, $context and $createdAt it was created with, the $id and
\* $type of its document are the id and type of its row, and an update or
\* verb that changes the document sets $version to the previous version
\* plus one.
C17_MetaPreserved ==
    [][/\ \A i \in 1..Len(entities') :
             /\ entities'[i].data.id = entities'[i].id
             /\ entities'[i].data.type = entities'[i].type
       /\ \A i \in 1..Len(entities) :
             /\ entities'[i].data.id = entities[i].data.id
             /\ entities'[i].data.type = entities[i].data.type
             /\ entities'[i].data.context = entities[i].data.context
             /\ entities'[i].data.createdAt = entities[i].data.createdAt
             /\ entities'[i].data # entities[i].data =>
                   /\ entities'[i].data.version = entities[i].data.version + 1
                   /\ entities'[i].version = entities[i].version + 1]_vars

\* a verb with a payload full of meta keys was applied to an entity that an
\* update had changed before
C17_Witness ==
    /\ last.op = "verb" /\ last.status = 200 /\ last.wrote
    /\ \E i \in 1..Len(entities) :
          /\ entities[i].id = last.id
          /\ entities[i].data.version = 3
          /\ entities[i].data.f["stage"] = MetaPayload["stage"]

\* the truth table of 4.8: "*" matches every event type; a pattern
\* entity.verb matches when each side is "*" or equal to the event's
Matches(pattern, eventType) ==
    \/ pattern = <<"*">>
    \/ /\ Len(pattern) = 2
       /\ pattern[1] \in {"*", eventType[1]}
       /\ pattern[2] \in {"*", eventType[2]}

\* C18 (I-Pattern): matchesPattern(p, "E.v") is true exactly when p is "*",
\* or p is "pe.pv" with (pe = "*" or pe = E) and (pv = "*" or pv = v);
\* either side or both sides of the pattern may be the wildcard.
C18_PatternTruthTable ==
    (probe.f = "matchesPattern" /\ probe.done) =>
        probe.result = Matches(probe.pattern, probe.eventType)

\* the deliveries of an outbox: <<subscription, event>>
Deliveries(o) == {<<d.sub, d.event>> : d \in {x \in o : x.kind = "webhook"}}

\* C19: for every appended event exactly one webhook POST is issued to each
\* subscription that is active at that moment, has mode webhook and a
\* pattern matching the event type; none is issued to a subscription that
\* is deleted, does not match or was created after the event was appended.
C19_OnePostPerMatch ==
    [][LET fresh == Deliveries(outbox') \ Deliveries(outbox)
       IN IF Len(events') = Len(events) + 1
          THEN fresh = {<<subscriptions[i].id, events'[Len(events')].id>> :
                           i \in {j \in 1..Len(subscriptions) :
                                    /\ subscriptions[j].active = 1
                                    /\ subscriptions[j].mode = "webhook"
                                    /\ Matches(subscriptions[j].pattern,
                                               EventType(events'[Len(events')]))}}
          ELSE fresh = {}]_vars

\* a request that was in the outbox has settled, or moved on
Settled == \E d \in outbox : d \notin outbox'

\* C20: a failure, a rejection or a non-OK answer of a webhook delivery or
\* of an integration dispatch never changes the answer of the mutation that
\* produced the event, nor any entity row, nor the event log.
C20_DispatchFailuresSwallowed ==
    [][Settled => /\ last' = last
                  /\ entities' = entities
                  /\ events' = events]_vars

\* a service call failed and was logged, the deliveries have all settled or
\* failed, and the create that started them still stands answered 201
C20_Witness ==
    /\ \E j \in 1..Len(dispatch_log) :
          dispatch_log[j].status = "error" /\ dispatch_log[j].service \in services
    /\ outbox = {}
    /\ subscriptions # <<>>
    /\ last.op = "create" /\ last.status = 201
    /\ Len(events) = 1 /\ Len(entities) = 1

\* a hook (or hook row) fits an event: its entity type is "*" or the
\* event's, and its verb is "*" or the event's
Fits(entityType, verb, event) ==
    /\ entityType \in {"*", event.entityType}
    /\ verb \in {"*", event.verb}

\* the ids of the hooks, built-in or active tenant ones, that fit an event
HooksFor(event) ==
    {BuiltinId(h) : h \in {b \in BUILTIN_HOOKS : Fits(b.entityType, b.verb, event)}}
    \cup {r.id : r \in {integration_hooks[i] : i \in {j \in 1..Len(integration_hooks) :
                    /\ integration_hooks[j].active = 1
                    /\ Fits(integration_hooks[j].entity_type, integration_hooks[j].verb, event)}}}

\* the dispatch_log rows of an event
RowsOf(event) == {j \in 1..Len(dispatch_log) : dispatch_log[j].event_id = event.id}

\* one row per fitting hook and no other, success exactly on an OK answer
LoggedOnce(event) ==
    /\ \A h \in HooksFor(event) :
          Cardinality({j \in RowsOf(event) : dispatch_log[j].hook_id = h}) = 1
    /\ \A j \in RowsOf(event) :
          /\ dispatch_log[j].hook_id \in HooksFor(event)
          /\ dispatch_log[j].status = "success" <=> dispatch_log[j].status_code = 200
          /\ dispatch_log[j].status \in {"success", "error"}

\* C21: if every outbound service call eventually settles, each appended
\* event eventually has exactly one dispatch_log entry per hook (built-in or
\* active tenant hook) fitting its entityType and verb, with status success
\* exactly when the service answered OK and error otherwise; an event that
\* no hook fits gets no entry.
C21_EveryHookLogged ==
    <>[](\A i \in 1..Len(events) : LoggedOnce(events[i]))

\* C22: with no service binding at all, a verb that fits a built-in hook
\* still leads to a dispatch_log entry for that hook with status error and
\* an error text containing "not available".
C22_UnboundIsLogged ==
    \A h \in BUILTIN_HOOKS :
        (services = {} /\ \E i \in 1..Len(events) : Fits(h.entityType, h.verb, events[i]))
        ~> (\E j \in 1..Len(dispatch_log) :
               /\ dispatch_log[j].hook_id = BuiltinId(h)
               /\ dispatch_log[j].status = "error"
               /\ dispatch_log[j].error = "not available")

\* the built-in hook table of 4.9, as listIntegrationHooks reports it
BuiltinRow(entityType, verb, service, method) ==
    [id |-> <<"builtin", service, method>>, entityType |-> entityType, verb |-> verb,
     service |-> service, method |-> method, active |-> TRUE, builtin |-> TRUE]
BuiltinTable ==
    {BuiltinRow("Contact", "qualify", "PAYMENTS", "POST /customers/sync"),
     BuiltinRow("Contact", "create", "PAYMENTS", "POST /customers/sync"),
     BuiltinRow("Deal", "close", "PAYMENTS", "POST /subscriptions/create"),
     BuiltinRow("Issue", "create", "REPO", "POST /issues/create"),
     BuiltinRow("Issue", "update", "REPO", "POST /issues/update"),
     BuiltinRow("Issue", "close", "REPO", "POST /issues/close")}

\* C25: whatever hooks were created and deleted, listIntegrationHooks
\* reports the same fixed built-in list, and deleteIntegrationHook on a
\* built-in hook id answers 403 and leaves the stored hooks as they were.
C25_BuiltinsFixed ==
    [][/\ last'.op = "listIntegrationHooks" => last'.builtin = BuiltinTable
       /\ (last'.op = "deleteIntegrationHook" /\ last' # last
             /\ last'.hookId \in {r.id : r \in BuiltinTable}) =>
             /\ last'.status = 403
             /\ integration_hooks' = integration_hooks]_vars

\* a tenant hook is stored and the deletion of a built-in hook was refused
C25_Witness ==
    /\ last.op = "deleteIntegrationHook" /\ last.status = 403
    /\ last.hookId \in {r.id : r \in BuiltinTable}
    /\ integration_hooks # <<>>

\* the built-in hooks and the active tenant hooks whose entityType is "*" or
\* the given one and whose verb is "*" or the given one
Wanted(entityType, verb, tenantHooks) ==
    {[hookId |-> <<"builtin", b.service, b.method>>, builtin |-> TRUE] :
        b \in {h \in BUILTIN_HOOKS : /\ h.entityType \in {"*", entityType}
                                     /\ h.verb \in {"*", verb}}}
    \cup {[hookId |-> t.id, builtin |-> FALSE] :
            t \in {h \in tenantHooks : /\ h.active
                                       /\ h.entityType \in {"*", entityType}
                                       /\ h.verb \in {"*", verb}}}

\* C23: findMatchingHooks(entityType, verb, tenantHooks) returns exactly the
\* built-in hooks and the active tenant hooks whose entityType is "*" or the
\* given one and whose verb is "*" or the given one; an inactive tenant hook
\* is never returned.
C23_FindMatchingHooks ==
    (probe.f = "findMatchingHooks" /\ probe.done) =>
        /\ {[hookId |-> r.hookId, builtin |-> r.builtin] : r \in probe.result}
              = Wanted(probe.entityType, probe.verb, probe.tenantHooks)
        /\ \A r \in probe.result, t \in probe.tenantHooks : r.hookId = t.id => t.active

\* a built-in hook, a wildcard tenant hook and a typed tenant hook were
\* returned while an inactive hook that fits was left out
C23_Witness ==
    /\ probe.f = "findMatchingHooks" /\ probe.done
    /\ Cardinality(probe.result) = 3
    /\ \E r \in probe.result : r.builtin
    /\ \E t \in probe.tenantHooks :
          /\ ~t.active /\ t.verb = probe.verb
          /\ \A r \in probe.result : r.hookId # t.id

BuiltinPairs ==
    {<<"Contact", "qualify">>, <<"Contact", "create">>, <<"Deal", "close">>,
     <<"Issue", "create">>, <<"Issue", "update">>, <<"Issue", "close">>}

C26_DisabledVerbIs403 ==
    [][(/\ last'.op = "verb" /\ last' # last
        /\ last'.type \in DOMAIN nouns
        /\ nouns[last'.type].defined
        /\ last'.verb \in nouns[last'.type].disabledVerbs) =>
          /\ last'.status = 403
          /\ entities' = entities
          /\ events' = events]_vars

\* C27: the generic merge-and-increment path never runs for the default
\* verbs: every event whose verb is delete comes from a soft delete (null
\* after snapshot, the entity's deleted_at set), and every event whose verb
\* is create has sequence 1 and a null before snapshot.
C27_DefaultVerbsBypass ==
    \A i \in 1..Len(events) :
        /\ events[i].verb = "delete" =>
              /\ events[i].after = Null
              /\ \E j \in 1..Len(entities) :
                    /\ entities[j].id = events[i].entityId
                    /\ entities[j].type = events[i].entityType
                    /\ entities[j].deleted_at # Null
        /\ events[i].verb = "create" =>
              /\ events[i].sequence = 1
              /\ events[i].before = Null

\* no noun is registered under this type
Unregistered(type) == type \notin DOMAIN nouns \/ ~nouns[type].defined

\* C28: every entity operation (create, update, delete, verb execution) on a
\* type for which no noun is registered is rejected with SchemaMissing (400)
\* and writes nothing.
C28_SchemaMissing ==
    [][(/\ last' # last
        /\ last'.op \in {"create", "update", "delete", "verb"}
        /\ Unregistered(last'.type)) =>
          /\ last'.status = 400
          /\ entities' = entities
          /\ events' = events]_vars

\* the schemas stored in the nouns table
Stored(table) == {table[n] : n \in {m \in DOMAIN table : table[m].defined}}

\* C29: the noun cache is either unhydrated or equal to the nouns table, so
\* after any defineNoun calls, accepted or rejected, getNoun and listNouns
\* return exactly the stored schemas, and listNouns calls with no defineNoun
\* between them return identical data.
C29_CacheAgrees ==
    [][/\ nounCache' = NullCache \/ nounCache' = nouns'
       /\ last'.op = "listNouns" => last'.data = Stored(nouns')
       /\ last'.op = "getNoun" =>
             last'.data = {x \in Stored(nouns') : x.name = last'.type}
       /\ (last.op = "listNouns" /\ last'.op = "listNouns") => last'.data = last.data]_vars

\* the registry was redefined after the cache had been hydrated, and the
\* list read after it shows the new schema from a hydrated cache
C29_Witness ==
    /\ last.op = "listNouns"
    /\ nounCache = nouns
    /\ \E x \in last.data : x.disabledVerbs # {}
    /\ events # <<>>

\* how many times the client has received an event
Receipts(id) == Cardinality({j \in 1..Len(consumer.received) : consumer.received[j] = id})

\* C30: a consumer that reopens the CDC stream with since set to the id of
\* the last event it received eventually receives every event exactly once,
\* none skipped and none repeated, whatever is committed between its
\* reconnects.
C30_EveryEventOnce ==
    /\ \A id \in 1..MaxEvents : EventIdTaken(id) ~> (Receipts(id) = 1)
    /\ [](\A id \in 1..MaxEvents : Receipts(id) <= 1)

\* the event of the log that carries an id
EventOf(id) == CHOOSE e \in {events[i] : i \in 1..Len(events)} : e.id = id

\* C31: for any single entity the CDC stream delivers the entity's events in
\* ascending sequence order: the order in which the consumer observes them
\* is their commit order.
C31_StreamInSequenceOrder ==
    \A i, j \in 1..Len(consumer.received) :
        (/\ i < j
         /\ EventOf(consumer.received[i]).entityType = EventOf(consumer.received[j]).entityType
         /\ EventOf(consumer.received[i]).entityId = EventOf(consumer.received[j]).entityId) =>
            EventOf(consumer.received[i]).sequence < EventOf(consumer.received[j]).sequence

\* C35: createEntity called with a $id that already belongs to an entity
\* (live or soft-deleted, of any type) alters neither that entity's row nor
\* its event log, and appends no second create event for it.
C35_ExistingIdUntouched ==
    [][(last' # last /\ last'.op = "create" /\ \E i \in 1..Len(entities) : entities[i].id = last'.id) =>
           /\ entities' = entities
           /\ events' = events]_vars

\* a create was refused on an id held by a soft-deleted row, and on an id
\* held by a row of another type
C35_Witness ==
    /\ last.op = "create" /\ last.status = 500
    /\ \E i \in 1..Len(entities) :
          /\ entities[i].id = last.id
          /\ entities[i].deleted_at # Null \/ entities[i].type # last.type
    /\ Cardinality({i \in 1..Len(events) : events[i].entityId = last.id /\ events[i].verb = "create"}) = 1

\* the entity's events all come from createEntity, updateEntity and custom verbs
OnlyPlainWrites(type, id) ==
    \A i \in EventsOf(type, id) : events[i].verb \in {"create", "update", "qualify"}

\* C36: for every non-deleted entity changed only through createEntity,
\* updateEntity and executeVerb of custom verbs, timeTravelGet with no bound
\* returns a state equal, field for field and with the same $version, to
\* what getEntity returns.
C36_ReplayIsCurrent ==
    (/\ last.op = "timeTravel" /\ last.asOf = NoNum /\ last.atVersion = NoNum
     /\ LiveRows(last.type, last.id) # {}
     /\ OnlyPlainWrites(last.type, last.id)) =>
        /\ last.status = 200
        /\ last.data = AsState(TheLive(last.type, last.id).data, FALSE)

\* C37: a subscription pattern that is not "*" and does not consist of
\* exactly two dot-separated segments is a literal string: it matches an
\* event type only when the pattern and the event type are the same string.
C37_OtherPatternsLiteral ==
    (/\ probe.f = "matchesPattern" /\ probe.done
     /\ probe.pattern # <<"*">> /\ Len(probe.pattern) # 2) =>
        probe.result = (probe.pattern = probe.eventType)

\* C38: integration hook ids are unique: no two distinct hooks reported by
\* listIntegrationHooks share an id.
C38_HookIdsUnique ==
    last.op = "listIntegrationHooks" =>
        \A a, b \in last.builtin \cup last.tenant : a # b => a.id # b.id

\* ------------------------------------------------------------ conjugation
\* A verb is kept here as the sequence of its characters, so that the
\* suffix rules act on text.
MaxVerbLen == 3

Letters == {"a", "e", "p", "y", "R"}
Vowels == {"a", "e", "i", "o", "u"}
FinalConsonants == {"b", "c", "d", "f", "g", "h", "l", "m", "n", "p", "r", "s", "t", "v", "w", "z"}

\* name.toLowerCase(), on the letters of the model
LowerCase(c) == IF c = "R" THEN "r" ELSE c
ToLowerCase(s) == [i \in 1..Len(s) |-> LowerCase(s[i])]

\* s.endsWith(t) and s.slice(0, -n)
EndsWith(s, t) == Len(s) >= Len(t) /\ SubSeq(s, Len(s) - Len(t) + 1, Len(s)) = t
SliceOff(s, n) == SubSeq(s, 1, Len(s) - n)

\* /[aeiou]y$/ and /[^aeiou][aeiou][bcdfghlmnprstvwz]$/
VowelThenY(s) == Len(s) >= 2 /\ s[Len(s)] = "y" /\ s[Len(s) - 1] \in Vowels
ConsonantVowelConsonant(s) ==
    /\ Len(s) >= 3
    /\ s[Len(s) - 2] \notin Vowels /\ s[Len(s) - 1] \in Vowels /\ s[Len(s)] \in FinalConsonants

\* the irregular verbs of deriveVerb: <<base, activity, event>>
Irregulars ==
    {<<<<"w","r","i","t","e">>, <<"w","r","i","t","i","n","g">>, <<"w","r","i","t","t","e","n">>>>,
     <<<<"r","e","a","d">>, <<"r","e","a","d","i","n","g">>, <<"r","e","a","d">>>>,
     <<<<"r","u","n">>, <<"r","u","n","n","i","n","g">>, <<"r","u","n">>>>,
     <<<<"b","e","g","i","n">>, <<"b","e","g","i","n","n","i","n","g">>, <<"b","e","g","u","n">>>>,
     <<<<"d","o">>, <<"d","o","i","n","g">>, <<"d","o","n","e">>>>,
     <<<<"g","o">>, <<"g","o","i","n","g">>, <<"g","o","n","e">>>>,
     <<<<"h","a","v","e">>, <<"h","a","v","i","n","g">>, <<"h","a","d">>>>,
     <<<<"b","e">>, <<"b","e","i","n","g">>, <<"b","e","e","n">>>>,
     <<<<"s","e","t">>, <<"s","e","t","t","i","n","g">>, <<"s","e","t">>>>,
     <<<<"g","e","t">>, <<"g","e","t","t","i","n","g">>, <<"g","o","t">>>>,
     <<<<"p","u","t">>, <<"p","u","t","t","i","n","g">>, <<"p","u","t">>>>,
     <<<<"c","u","t">>, <<"c","u","t","t","i","n","g">>, <<"c","u","t">>>>,
     <<<<"h","i","t">>, <<"h","i","t","t","i","n","g">>, <<"h","i","t">>>>}

\* deriveVerb(name): action, activity and event
DeriveVerb(name) ==
    LET base == ToLowerCase(name)
        last1 == <<base[Len(base)]>>
        ing == <<"i", "n", "g">>
        activity ==
            IF EndsWith(base, <<"e">>) /\ ~EndsWith(base, <<"e", "e">>) THEN SliceOff(base, 1) \o ing
            ELSE IF EndsWith(base, <<"i", "e">>) THEN SliceOff(base, 2) \o <<"y">> \o ing
            ELSE IF ConsonantVowelConsonant(base) /\ Len(base) <= 6 THEN base \o last1 \o ing
            ELSE base \o ing
        event ==
            IF EndsWith(base, <<"e">>) THEN base \o <<"d">>
            ELSE IF EndsWith(base, <<"y">>) /\ ~VowelThenY(base) THEN SliceOff(base, 1) \o <<"i", "e", "d">>
            ELSE IF ConsonantVowelConsonant(base) /\ Len(base) <= 6 THEN base \o last1 \o <<"e", "d">>
            ELSE base \o <<"e", "d">>
    IN IF \E r \in Irregulars : r[1] = base
       THEN LET irr == CHOOSE r \in Irregulars : r[1] = base
            IN [action |-> base, activity |-> irr[2], event |-> irr[3]]
       ELSE [action |-> base, activity |-> activity, event |-> event]

\* conjugate(action) of the noun parser
Conjugate(action) == DeriveVerb(action)

Create == <<"c","r","e","a","t","e">>
Update == <<"u","p","d","a","t","e">>
Delete == <<"d","e","l","e","t","e">>

\* conjugateVerb(verb) of logEvent
ConjugateVerb(verb) ==
    IF verb = Create
    THEN [action |-> Create, activity |-> <<"c","r","e","a","t","i","n","g">>, event |-> <<"c","r","e","a","t","e","d">>]
    ELSE IF verb = Update
    THEN [action |-> Update, activity |-> <<"u","p","d","a","t","i","n","g">>, event |-> <<"u","p","d","a","t","e","d">>]
    ELSE IF verb = Delete
    THEN [action |-> Delete, activity |-> <<"d","e","l","e","t","i","n","g">>, event |-> <<"d","e","l","e","t","e","d">>]
    ELSE IF EndsWith(verb, <<"e">>)
    THEN [action |-> verb, activity |-> SliceOff(verb, 1) \o <<"i", "n", "g">>, event |-> verb \o <<"d">>]
    ELSE IF EndsWith(verb, <<"y">>)
    THEN [action |-> verb, activity |-> verb \o <<"i", "n", "g">>, event |-> SliceOff(verb, 1) \o <<"i", "e", "d">>]
    ELSE [action |-> verb, activity |-> verb \o <<"i", "n", "g">>, event |-> verb \o <<"e", "d">>]

\* the keys parseNounDefinition keeps as verbs: a key declared with a
\* PascalCase value that does not start with a capital and is no read verb
\* (the CRUD verbs are verbs by default)
IsVerbKey(key) ==
    /\ key[1] # "R"
    /\ key \notin {<<"g","e","t">>, <<"f","i","n","d">>}

NotAVerb == [action |-> <<>>, activity |-> <<>>, event |-> <<>>]

\* verbs of every shape up to a length, and some verbs of the product
VerbTexts ==
    UNION {[1..n -> Letters] : n \in 1..MaxVerbLen}
        \cup {Create, Update, Delete,
              <<"q","u","a","l","i","f","y">>, <<"c","l","o","s","e">>, <<"s","h","i","p">>,
              <<"w","r","i","t","e">>, <<"g","e","t">>}

\* a verb key on its way through registration and emission
Conjugator(verb) ==
    [f |-> "conjugate", verb |-> verb, stage |-> "declared", schema |-> NotAVerb, event |-> NotAVerb]

\* defineNoun stores the schema parseNounDefinition built: verbs[key]
RegisterVerb ==
    /\ probe.f = "conjugate" /\ probe.stage = "declared"
    /\ probe' = [probe EXCEPT !.stage = "registered",
                              !.schema = IF IsVerbKey(probe.verb) THEN Conjugate(probe.verb) ELSE NotAVerb]
    /\ UNCHANGED <<kernel, nouns, nounCache, entities, events, now, inflight, race, throws, last,
                   subscriptions, integration_hooks, services, outbox, dispatch_log, consumer,
                   tenant_meta, hooks, tenant, objects>>

\* a verb of the schema is executed and logEvent fills the event's conjugation
EmitVerb ==
    /\ probe.f = "conjugate" /\ probe.stage = "registered" /\ probe.schema # NotAVerb
    /\ probe' = [probe EXCEPT !.stage = "emitted", !.event = ConjugateVerb(probe.verb)]
    /\ UNCHANGED <<kernel, nouns, nounCache, entities, events, now, inflight, race, throws, last,
                   subscriptions, integration_hooks, services, outbox, dispatch_log, consumer,
                   tenant_meta, hooks, tenant, objects>>

ConjInit == \E v \in VerbTexts : InitWith("fetch", {}, Conjugator(v))
NextConj == RegisterVerb \/ EmitVerb
SpecConj == ConjInit /\ [][NextConj]_vars

\* C39: for every verb defined on a noun, the conjugation (action, activity,
\* event) recorded on the verb's events equals the conjugation the noun
\* schema stored for it at registration.
C39_EventConjugationIsSchemas ==
    (probe.f = "conjugate" /\ probe.stage = "emitted") => probe.event = probe.schema

\* ------------------------------------------------------------ code hooks
MaxCodeHooks == 2

\* request bodies of POST /:type/hooks: { verb, phase, code }
CodeHookInputs ==
    {[verb |-> "qualify", phase |-> "before", code |-> "throw new Error()"],
     [verb |-> "qualify", phase |-> "after", code |-> "data.stage = 'x'"],
     [verb |-> "archive", phase |-> "before", code |-> "return null"],
     [verb |-> "qualify", phase |-> "during", code |-> "return null"],
     [verb |-> "qualify", phase |-> "before", code |-> ""],
     [verb |-> "", phase |-> "before", code |-> "return null"]}

\* registerHook(type, body)
RegisterHook(type, body) ==
    /\ kernel = "rpc" /\ Quiet /\ Len(hooks) < MaxCodeHooks
    /\ nounCache' = LoadNouns
    /\ LET status == IF GetNoun(type) = NoSchema THEN 400
                     ELSE IF body.verb = "" THEN 400
                     ELSE IF body.phase \notin {"before", "after"} THEN 400
                     ELSE IF body.code = "" THEN 400
                     ELSE IF body.verb \notin GetNoun(type).verbs THEN 400
                     ELSE 201
       IN /\ hooks' = IF status = 201
                      THEN Append(hooks, [noun |-> type, verb |-> body.verb, phase |-> body.phase,
                                          code |-> body.code])
                      ELSE hooks
          /\ last' = [op |-> "registerHook", type |-> type, verb |-> body.verb,
                      phase |-> body.phase, status |-> status]
    /\ UNCHANGED <<kernel, nouns, entities, events, now, inflight, race, throws, outbox,
                   subscriptions, integration_hooks, services, dispatch_log, probe, consumer,
                   tenant_meta, tenant, objects>>

\* one entity of one noun, its verb, and hooks registered around it
CodeOps ==
    \/ \E n \in NounNames : DefineNoun(n, AllEnabled)
    \/ \E n \in NounNames, d \in CreateInputs, c \in Contexts, e \in FreeEventIds :
          CreateEntity(n, d, EntityIds[1], c, e)
    \/ \E n \in NounNames, b \in CodeHookInputs : RegisterHook(n, b)
    \/ \E n \in NounNames, p \in VerbPayloads, e \in FreeEventIds :
          ExecuteVerb(n, EntityIds[1], "qualify", p, e)
SpecCode == Init /\ [][CodeOps]_vars

\* the live row of an entity in a table
RowIn(table, type, id) ==
    CHOOSE r \in {table[i] : i \in 1..Len(table)} :
        r.id = id /\ r.type = type /\ r.deleted_at = Null

\* what a verb leaves of a document when nothing but its payload acts on it
Plainly(doc, payload, type, id, version) ==
    [f |-> [k \in DOMAIN doc.f |-> IF k \in DOMAIN payload THEN payload[k] ELSE doc.f[k]],
     id |-> id, type |-> type, context |-> doc.context, version |-> version,
     createdAt |-> doc.createdAt, updatedAt |-> now]

\* C34: registering before/after hooks, whatever their code, does not change
\* the outcome of executeVerb: the entity, the event and the status are the
\* ones the verb's payload alone determines.
C34_HooksNeverRun ==
    [][(last' # last /\ last'.op = "verb" /\ last'.status \in {200, 404}) =>
          IF LiveRows(last'.type, last'.id) = {}
          THEN last'.status = 404 /\ entities' = entities /\ events' = events
          ELSE /\ last'.status = 200
               /\ \E p \in VerbPayloads :
                     LET old == RowIn(entities, last'.type, last'.id)
                         new == RowIn(entities', last'.type, last'.id)
                     IN /\ new.data = Plainly(old.data, p, last'.type, last'.id, old.version + 1)
                        /\ Len(events') = Len(events) + 1
                        /\ events'[Len(events')].before = old.data
                        /\ events'[Len(events')].after = new.data]_vars

\* a verb has run on an entity while a before hook and an after hook were
\* registered for it
C34_Witness ==
    /\ last.op = "verb" /\ last.status = 200 /\ last.verb = "qualify"
    /\ GetHooks(last.type, "qualify", "before") # {}
    /\ GetHooks(last.type, "qualify", "after") # {}

\* ------------------------------------------------------------ tenant management
\* INSERT OR REPLACE INTO tenant_meta (key, value)
Put(meta, key, value) == [k \in DOMAIN meta \cup {key} |-> IF k = key THEN value ELSE meta[k]]

\* a deactivation that drops the tenant's metadata
DeactivateErases(meta) ==
    IF "status" \notin DOMAIN meta THEN [meta |-> meta, status |-> 404]
    ELSE [meta |-> Put(NoMeta, "status", "deactivated"), status |-> 200]

\* provisionTenant(body): the metadata it leaves and its status; a name or a
\* plan that is absent is the empty text
ProvisionTenant(meta, body) ==
    IF body.tenantId = <<>> THEN [meta |-> meta, status |-> 400]
    ELSE IF "status" \in DOMAIN meta /\ meta["status"] = "active" THEN [meta |-> meta, status |-> 409]
    ELSE LET base == Put(Put(Put(meta, "tenantId", body.tenantId), "status", "active"), "createdAt", now)
             named == IF body.name # "" THEN Put(base, "name", body.name) ELSE base
             planned == IF body.plan # "" THEN Put(named, "plan", body.plan) ELSE named
         IN [meta |-> planned, status |-> 201]

\* tenantInfo(tenantId): its status
TenantInfo(meta, tenantId) == IF DOMAIN meta = {} THEN 404 ELSE 200

\* deactivateTenant(tenantId): the metadata it leaves and its status
DeactivateTenant(meta) ==
    IF "status" \notin DOMAIN meta THEN [meta |-> meta, status |-> 404]
    ELSE IF meta["status"] = "deactivated" THEN [meta |-> meta, status |-> 400]
    ELSE [meta |-> Put(Put(meta, "status", "deactivated"), "deactivatedAt", now), status |-> 200]

\* /^[a-z0-9][a-z0-9-]{0,62}[a-z0-9]$/.test(id)
TenantIdFormat(id) ==
    /\ Len(id) >= 2 /\ Len(id) - 2 <= 62
    /\ id[1] \in LowerAlnum /\ id[Len(id)] \in LowerAlnum
    /\ \A i \in 2..(Len(id) - 1) : id[i] \in LowerAlnum \cup {"-"}

\* a call through the stub of tenant t that leaves its kernel's storage as
\* `after`: the kernel is brought into memory, the one that was there rests
Call(t, after) ==
    /\ tenant' = t
    /\ objects' = IF getTenantStub(t) = getTenantStub(tenant) THEN objects
                  ELSE [d \in (DOMAIN objects \cup {getTenantStub(tenant)}) \ {getTenantStub(t)} |->
                           IF d = getTenantStub(tenant) THEN InMemory ELSE objects[d]]
    /\ nouns' = after.nouns /\ nounCache' = after.nounCache
    /\ entities' = after.entities /\ events' = after.events
    /\ subscriptions' = after.subscriptions /\ integration_hooks' = after.integration_hooks
    /\ dispatch_log' = after.dispatch_log
    /\ tenant_meta' = after.tenant_meta /\ hooks' = after.hooks

TenantAnswer(op, id, status, contacted) ==
    [op |-> op, id |-> id, status |-> status, contacted |-> contacted]

\* POST /tenants with body { id, name, plan }
PostTenants(body) ==
    /\ kernel = "rpc" /\ Quiet
    /\ IF body.id = <<>> \/ (~TenantIdFormat(body.id) /\ Len(body.id) < 2)
       THEN /\ last' = TenantAnswer("provisionTenant", body.id, 400, FALSE)
            /\ UNCHANGED <<nouns, nounCache, entities, events, subscriptions, integration_hooks,
                           dispatch_log, tenant_meta, hooks, tenant, objects>>
       ELSE LET st == StorageOf(getTenantStub(body.id))
                r == ProvisionTenant(st.tenant_meta,
                                     [tenantId |-> body.id, name |-> body.name, plan |-> body.plan])
            IN /\ Call(body.id, [st EXCEPT !.tenant_meta = r.meta])
               /\ last' = TenantAnswer("provisionTenant", body.id, r.status, TRUE)
    /\ UNCHANGED <<kernel, now, inflight, race, throws, services, outbox, probe, consumer>>

\* GET /tenants/:id
GetTenant(id) ==
    /\ kernel = "rpc" /\ Quiet
    /\ LET st == StorageOf(getTenantStub(id))
       IN /\ Call(id, st)
          /\ last' = TenantAnswer("tenantInfo", id, TenantInfo(st.tenant_meta, id), TRUE)
    /\ UNCHANGED <<kernel, now, inflight, race, throws, services, outbox, probe, consumer>>

\* DELETE /tenants/:id
DeleteTenant(id) ==
    /\ kernel = "rpc" /\ Quiet
    /\ LET st == StorageOf(getTenantStub(id))
           r == DeactivateTenant(st.tenant_meta)
       IN /\ Call(id, [st EXCEPT !.tenant_meta = r.meta])
          /\ last' = TenantAnswer("deactivateTenant", id, r.status, TRUE)
    /\ UNCHANGED <<kernel, now, inflight, race, throws, services, outbox, probe, consumer>>

\* tenantMiddleware and getStub(c): the request of a tenant reaches its kernel
Route(t) ==
    /\ kernel = "rpc" /\ Quiet
    /\ Call(t, StorageOf(getTenantStub(t)))
    /\ UNCHANGED <<kernel, now, inflight, race, throws, services, outbox, probe, consumer, last>>

\* two tenants: their provisioning, and a noun, an entity and a hook in each
Tenants == {TenantA, TenantB}
TenantOps ==
    \/ \E t \in Tenants : Route(t)
    \/ \E t \in Tenants : PostTenants([id |-> t, name |-> "", plan |-> ""])
    \/ \E t \in Tenants : GetTenant(t)
    \/ \E t \in Tenants : DeleteTenant(t)
    \/ \E n \in NounNames : DefineNoun(n, AllEnabled)
    \/ \E n \in NounNames, d \in CreateInputs, c \in Contexts :
          events = <<>> /\ CreateEntity(n, d, EntityIds[1], c, 1)
    \/ \E n \in NounNames : RegisterHook(n, [verb |-> "qualify", phase |-> "before", code |-> "return null"])
SpecTenants == Init /\ [][TenantOps]_vars

\* one tenant id, valid or not, and the requests that name it
ProvisionOps ==
    \/ \E name \in {"", "Acme"}, plan \in {"", "pro"} :
          PostTenants([id |-> probe.id, name |-> name, plan |-> plan])
    \/ probe.id # <<>> /\ GetTenant(probe.id)
    \/ probe.id # <<>> /\ DeleteTenant(probe.id)
ProvisionInit == \E id \in TenantIdInputs : InitWith("rpc", {}, [f |-> "tenants", id |-> id])
SpecProvision == ProvisionInit /\ [][ProvisionOps]_vars

\* what a tenant's stub reaches, given who is in memory and who is at rest
ViewOf(t, served, memory, resting) ==
    IF t = served THEN memory
    ELSE IF <<"do", t>> \in DOMAIN resting THEN resting[<<"do", t>>]
    ELSE Blank

\* the tenant metadata of a storage, at a key
MetaAt(storage, key) ==
    IF key \in DOMAIN storage.tenant_meta THEN <<storage.tenant_meta[key]>> ELSE <<>>

\* C33: deactivateTenant changes only tenant metadata (status and
\* deactivatedAt): nouns, entities, events, subscriptions and hooks are left
\* unchanged; and a later provisionTenant on the deactivated tenant succeeds
\* and sets the status back to active.
C33_DeactivateTouchesMetaOnly ==
    [][LET before == ViewOf(last'.id, tenant, InMemory, objects)
           after == ViewOf(last'.id, tenant', InMemory', objects')
       IN /\ (last' # last /\ last'.op = "deactivateTenant") =>
                /\ [after EXCEPT !.tenant_meta = before.tenant_meta] = before
                /\ \A k \in (DOMAIN before.tenant_meta \cup DOMAIN after.tenant_meta)
                               \ {"status", "deactivatedAt"} :
                      MetaAt(after, k) = MetaAt(before, k)
                /\ last'.status = 200 => MetaAt(after, "status") = <<"deactivated">>
          /\ (last' # last /\ last'.op = "provisionTenant"
                /\ MetaAt(before, "status") = <<"deactivated">>) =>
                /\ last'.status = 201
                /\ MetaAt(after, "status") = <<"active">>]_vars

\* a tenant holding a noun, an entity and a hook was deactivated, and was
\* provisioned again
C33_Witness ==
    /\ last.op = "provisionTenant" /\ last.status = 201 /\ last.id = tenant
    /\ "deactivatedAt" \in DOMAIN tenant_meta /\ tenant_meta["status"] = "active"
    /\ entities # <<>> /\ events # <<>> /\ hooks # <<>> /\ nouns["Contact"] # NoSchema

\* C32: operations issued for a tenant read and write only that tenant's
\* kernel state: one tenant id always resolves to one kernel, two tenant ids
\* resolve to two kernels, and no operation on one tenant changes anything
\* observable through another.
C32_TenantsIsolated ==
    [][/\ \A a, b \in Tenants : (getTenantStub(a) = getTenantStub(b)) = (a = b)
       /\ \A t \in Tenants :
             t # tenant' =>
                 ViewOf(t, tenant', InMemory', objects') = ViewOf(t, tenant, InMemory, objects)]_vars

\* both tenants are provisioned; one holds a noun and an entity, the other,
\* now being served, holds none
C32_Witness ==
    /\ tenant = TenantB /\ entities = <<>> /\ nouns["Contact"] = NoSchema
    /\ "status" \in DOMAIN tenant_meta
    /\ getTenantStub(TenantA) \in DOMAIN objects
    /\ objects[getTenantStub(TenantA)].entities # <<>>
    /\ "status" \in DOMAIN objects[getTenantStub(TenantA)].tenant_meta
    /\ last.op = "tenantInfo" /\ last.id = TenantB /\ last.status = 200

\* 2 to 64 characters, each a lowercase letter, a digit or a hyphen, the
\* first and the last a letter or a digit
WellFormedId(id) ==
    /\ Len(id) \in 2..64
    /\ \A i \in 1..Len(id) : id[i] \in LowerAlnum \cup {"-"}
    /\ id[1] # "-" /\ id[Len(id)] # "-"

\* C40: the tenant provisioning route rejects with 400 every tenant id that
\* is not 2 to 64 characters of lowercase letters, digits and hyphens
\* beginning and ending with a letter or digit, and for such an id never
\* contacts or provisions a tenant kernel.
C40_BadTenantIdRejected ==
    /\ (last.op = "provisionTenant" /\ ~WellFormedId(last.id)) =>
          (last.status = 400 /\ ~last.contacted)
    /\ \A id \in TenantIdInputs :
          ~WellFormedId(id) => StorageOf(<<"do", id>>).tenant_meta = NoMeta

====
